---- MODULE Spec2Model ----
(***************************************************************************)
(* The configuration option loader of cheribuild                           *)
(* (pycheribuild/config/loader.py): option descriptors, the registry, the  *)
(* layered resolution command line -> JSON -> fallback option -> default,  *)
(* the per-descriptor cache, and the load / reset / reload life cycle.     *)
(***************************************************************************)
EXTENDS Integers, Sequences, FiniteSets, TLC

VARIABLES
    loaderCls,    \* class of the loader object
    options,      \* ConfigLoaderBase.options: name -> descriptor
    parser,       \* ConfigLoaderBase._parser: the option strings it knows
    parsedArgs,   \* ConfigLoaderBase._parsedArgs: None or the argparse namespace
    JSON,         \* ConfigLoaderBase._JSON: the in-memory document
    configPath,   \* JsonAndCommandLineConfigLoader._configPath
    files,        \* the file system: path -> document, or Missing
    cached,       \* ConfigOptionBase._cached of every descriptor
    resolutions,  \* number of loadOption runs per descriptor since the last reset()
    err,          \* how the last operation ended: "ok" or the exception raised
    stdin,        \* TRUE: stdin is a terminal and the user answers "y" to "Continue?"
    warnings,     \* the keys the last load() reported as unknown config options
    jenkins       \* JenkinsConfig: the cheriBits and crossCompileTarget load() assigned

vars == <<loaderCls, options, parser, parsedArgs, JSON, configPath, files, cached, resolutions, err,
          stdin, warnings, jenkins>>

(***************************************************************************)
(* Python values.  Every value is a record tagged with its Python type.    *)
(***************************************************************************)
None == [t |-> "none"]
\* the attributes of a JenkinsConfig whose load() has not assigned them yet
Unassigned == [cheriBits |-> None, crossCompileTarget |-> None]
PyBool(b) == [t |-> "bool", b |-> b]
\* a str: the text split at "/", abs says whether it starts with "/"
PyStr(abs, segs) == [t |-> "str", abs |-> abs, segs |-> segs]
\* a pathlib.Path
PyPath(abs, segs) == [t |-> "path", abs |-> abs, segs |-> segs]

Cwd == <<"cwd">>

(***************************************************************************)
(* Exceptions travel as values: an operator that raises returns Raise(e).  *)
(***************************************************************************)
Raise(e) == [t |-> "raise", exc |-> e]
IsRaise(v) == v.t = "raise"

\* an int, a list and a member of an Enum class
PyInt(n) == [t |-> "int", n |-> n]
PyList(items) == [t |-> "list", items |-> items]
PyEnum(member) == [t |-> "enum", member |-> member]

\* the text of a str that is a single word (no "/")
Text(v) == IF v.t = "str" /\ ~v.abs /\ Len(v.segs) = 1 THEN v.segs[1] ELSE ""

\* the decimal numerals the model knows
Numerals == {<<"8", 8>>, <<"128", 128>>, <<"256", 256>>, <<"0", 0>>, <<"1", 1>>}

\* str(x)
ToStr(v) ==
    CASE v.t = "str"  -> v
      [] v.t = "path" -> PyStr(v.abs, v.segs)
      [] v.t = "bool" -> PyStr(FALSE, <<IF v.b THEN "True" ELSE "False">>)
      [] v.t = "int"  -> IF \E p \in Numerals : p[2] = v.n
                         THEN PyStr(FALSE, <<(CHOOSE p \in Numerals : p[2] = v.n)[1]>>)
                         ELSE PyStr(FALSE, <<"<int>">>)
      [] v.t = "enum" -> PyStr(FALSE, <<"JenkinsAction." \o v.member>>)
      [] v.t = "list" -> PyStr(FALSE, <<"<list>">>)
      [] v.t = "dict" -> PyStr(FALSE, <<"<dict>">>)
      [] OTHER        -> PyStr(FALSE, <<"None">>)

\* bool(x)
ToBool(v) ==
    CASE v.t = "bool" -> v
      [] v.t = "none" -> PyBool(FALSE)
      [] v.t = "str"  -> PyBool(v.abs \/ v.segs # <<>>)
      [] v.t = "int"  -> PyBool(v.n # 0)
      [] v.t = "list" -> PyBool(v.items # <<>>)
      [] v.t = "dict" -> PyBool(DOMAIN v.items # {})
      [] OTHER        -> PyBool(TRUE)

\* int(x): ValueError for a str that is no numeral, TypeError for a value
\* that is neither a number nor a str
ToInt(v) ==
    CASE v.t = "int"  -> v
      [] v.t = "bool" -> PyInt(IF v.b THEN 1 ELSE 0)
      [] v.t = "str"  -> IF \E p \in Numerals : p[1] = Text(v)
                         THEN PyInt((CHOOSE p \in Numerals : p[1] = Text(v))[2])
                         ELSE Raise("ValueError")
      [] OTHER        -> Raise("TypeError")

\* the members of the Enum class JenkinsAction
JenkinsAction == {"BUILD", "CREATE_TARBALL", "EXTRACT_SDK"}

\* astring.upper().replace("-", "_") on the words the model knows
EnumValueName(text) ==
    CASE text \in {"build", "Build", "BUILD"}                         -> "BUILD"
      [] text \in {"create-tarball", "create_tarball", "CREATE-TARBALL",
                   "CREATE_TARBALL"}                                  -> "CREATE_TARBALL"
      [] text \in {"extract-sdk", "extract_sdk", "EXTRACT_SDK"}       -> "EXTRACT_SDK"
      [] text = "extract sdk"                                         -> "EXTRACT SDK"
      [] OTHER                                                        -> "BOGUS"

\* _EnumArgparseType.__call__
RECURSIVE _EnumArgparseType(_)
_EnumArgparseType(astring) ==
    CASE astring.t = "list" ->
            LET vs == [i \in DOMAIN astring.items |-> _EnumArgparseType(astring.items[i])] IN
            IF \E i \in DOMAIN vs : IsRaise(vs[i])
            THEN vs[CHOOSE i \in DOMAIN vs : IsRaise(vs[i]) /\ \A j \in 1..(i - 1) : ~IsRaise(vs[j])]
            ELSE PyList(vs)
      [] astring.t = "enum" -> astring
      [] astring.t = "str" ->
            \* a str with a "/" has no member either
            IF Text(astring) # "" /\ EnumValueName(Text(astring)) \in JenkinsAction
            THEN PyEnum(EnumValueName(Text(astring)))
            ELSE Raise("ArgumentTypeError")
      [] OTHER -> Raise("AttributeError")

\* shlex.split on the texts the model knows: words split at blanks, a quoted
\* part is one word, ValueError for a quotation that is not closed
shlex_split(v) ==
    CASE Text(v) = "a b"      -> PyList(<<PyStr(FALSE, <<"a">>), PyStr(FALSE, <<"b">>)>>)
      [] Text(v) = "'a b'"    -> PyList(<<PyStr(FALSE, <<"a b">>)>>)
      [] Text(v) = "'a"       -> Raise("ValueError")
      [] Text(v) = "extract sdk" ->
            PyList(<<PyStr(FALSE, <<"extract">>), PyStr(FALSE, <<"sdk">>)>>)
      [] v.segs = <<>> /\ ~v.abs -> PyList(<<>>)
      [] OTHER                -> PyList(<<v>>)

\* the elements of a finite set in some order
RECURSIVE SeqOf(_)
SeqOf(S) == IF S = {} THEN <<>> ELSE LET x == CHOOSE y \in S : TRUE IN <<x>> \o SeqOf(S \ {x})

\* list(x): the keys of a dict, TypeError for a value that cannot be iterated
ToList(v) ==
    CASE v.t = "list" -> v
      [] v.t = "dict" -> PyList([i \in 1..Cardinality(DOMAIN v.items) |->
                                   PyStr(FALSE, <<SeqOf(DOMAIN v.items)[i]>>)])
      [] OTHER        -> Raise("TypeError")

\* os.environ: HOME, and a variable whose value names a variable itself
Environ ==
    [v \in {"$HOME", "$A"} |->
        IF v = "$HOME" THEN PyStr(TRUE, <<"home">>) ELSE PyStr(FALSE, <<"$HOME", "x">>)]

\* os.path.expandvars(s): every "$NAME" component is replaced by the value of
\* the variable, in one pass: the text put in is not expanded again
RECURSIVE expandvars_segs(_)
expandvars_segs(segs) ==
    IF segs = <<>> THEN <<>>
    ELSE (IF Head(segs) \in DOMAIN Environ THEN Environ[Head(segs)].segs ELSE <<Head(segs)>>)
             \o expandvars_segs(Tail(segs))

expandvars(v) ==
    PyStr(v.abs \/ (v.segs # <<>> /\ Head(v.segs) \in DOMAIN Environ
                        /\ Environ[Head(v.segs)].abs),
          expandvars_segs(v.segs))

\* os.path.expanduser(s): "~" at the start is the home directory
expanduser(v) ==
    IF ~v.abs /\ v.segs # <<>> /\ Head(v.segs) = "~"
    THEN PyStr(TRUE, Environ["$HOME"].segs \o Tail(v.segs))
    ELSE v

\* os.path.expanduser(os.path.expandvars(s))
Expand(v) == expanduser(expandvars(v))

\* Path(s).absolute()
Absolute(v) == IF v.abs THEN PyPath(TRUE, v.segs) ELSE PyPath(TRUE, Cwd \o v.segs)

\* p / "a/b"
PathJoin(p, segs) == PyPath(p.abs, p.segs \o segs)

\* the value types that are sequence classes
IsSequenceType(valueType) == valueType = "list"

\* ConfigOptionBase._convertType
_convertType(valueType, result) ==
    IF result = None THEN None
    ELSE LET split == IF valueType # "str" /\ result.t = "str" /\ IsSequenceType(valueType)
                      THEN shlex_split(result) ELSE result
         IN  IF IsRaise(split) THEN split
             ELSE CASE valueType = "Path" -> Absolute(Expand(ToStr(split)))
                    [] valueType = "bool" -> ToBool(split)
                    [] valueType = "int"  -> ToInt(split)
                    [] valueType = "list" -> ToList(split)
                    [] valueType = "enum" -> _EnumArgparseType(split)
                    [] OTHER              -> ToStr(split)

(***************************************************************************)
(* Option descriptors                                                      *)
(***************************************************************************)
NoFallback == "<none>"

\* the name split at "/": the object references, then the key
jsonPath(name) ==
    CASE name = "qtbase/build-tests"            -> <<"qtbase">>
      [] name = "qtbase-native/build-tests"     -> <<"qtbase-native">>
      [] name = "qtbase-mips/build-tests"       -> <<"qtbase-mips">>
      [] name = "qtbase/build-directory"        -> <<"qtbase">>
      [] name = "qtbase-native/build-directory" -> <<"qtbase-native">>
      [] name = "qtbase-mips/build-directory"   -> <<"qtbase-mips">>
      [] name = "gdb/build-type"                -> <<"gdb">>
      [] name = "gdb-mips/build-type"           -> <<"gdb-mips">>
      [] name = "gdb-mips-hybrid/build-type"    -> <<"gdb-mips-hybrid">>
      [] OTHER                                  -> <<>>

jsonKey(name) ==
    CASE name \in {"qtbase/build-tests", "qtbase-native/build-tests",
                   "qtbase-mips/build-tests"}          -> "build-tests"
      [] name \in {"qtbase/build-directory", "qtbase-native/build-directory",
                   "qtbase-mips/build-directory"}      -> "build-directory"
      [] name \in {"gdb/build-type", "gdb-mips/build-type",
                   "gdb-mips-hybrid/build-type"}       -> "build-type"
      [] OTHER                                         -> name

\* argparse derives dest from the first long option string: "-" becomes "_"
ActionDest(name) ==
    CASE name = "qtbase/build-tests"            -> "qtbase/build_tests"
      [] name = "qtbase-native/build-tests"     -> "qtbase_native/build_tests"
      [] name = "qtbase-mips/build-tests"       -> "qtbase_mips/build_tests"
      [] name = "qtbase/build-directory"        -> "qtbase/build_directory"
      [] name = "qtbase-native/build-directory" -> "qtbase_native/build_directory"
      [] name = "qtbase-mips/build-directory"   -> "qtbase_mips/build_directory"
      [] name = "gdb/build-type"                -> "gdb/build_type"
      [] name = "gdb-mips/build-type"           -> "gdb_mips/build_type"
      [] name = "gdb-mips-hybrid/build-type"    -> "gdb_mips_hybrid/build_type"
      [] name = "source-root"                   -> "source_root"
      [] name = "without-sdk"                   -> "without_sdk"
      [] name = "cheri-bits"                    -> "cheri_bits"
      [] name = "skip-update"                   -> "skip_update"
      [] name = "sdk-archive"                   -> "sdk_archive"
      [] name = "cmake-options"                 -> "cmake_options"
      [] name = "make-jobs"                     -> "make_jobs"
      [] OTHER                                  -> name

\* the shortname an option is registered with ("" for none)
ShortName(name) ==
    CASE name = "make-jobs"  -> "j"
      [] name = "cheri-bits" -> "-bits"
      [] OTHER               -> ""

\* shortname.lstrip("-") of a shortname of more than one character: the
\* alternate name of the option ("" when it has none)
AlternateName(name) ==
    CASE ShortName(name) = "-bits" -> "bits"
      [] OTHER                     -> ""

\* a ComputedDefaultValue: the value of option dep (read through the
\* descriptor, so through its cache) joined with segs
Computed(dep, segs) == [t |-> "computed", dep |-> dep, segs |-> segs]

\* ConfigOptionBase.__init__ / CommandLineConfigOption.__init__
ConfigOption(cls, name, default, valueType, fallback) ==
    [cls |-> cls, name |-> name, default |-> default, valueType |-> valueType,
     \* DefaultValueOnlyConfigOption.__init__ drops _fallback_name
     fallback |-> IF cls = "DefaultValueOnlyConfigOption" THEN NoFallback ELSE fallback,
     dest |-> ActionDest(name)]

\* the class addOption instantiates when option_cls is not given
OptionCls(lcls) ==
    IF lcls = "DefaultValueOnlyConfigLoader" THEN "DefaultValueOnlyConfigOption"
    ELSE "JsonAndCommandLineConfigOption"

\* the directory name a target builds in: project name, target suffix, "-build"
BuildDirName(name) ==
    CASE name = "qtbase/build-directory"        -> "qtbase-build"
      [] name = "qtbase-native/build-directory" -> "qtbase-native-build"
      [] OTHER                                  -> "qtbase-mips-build"

\* a choice option: the per-target variants fall back to the base option
BuildTestsOptions(lcls) ==
    LET cls == OptionCls(lcls) IN
    [n \in {"qtbase/build-tests", "qtbase-native/build-tests", "qtbase-mips/build-tests"} |->
        ConfigOption(cls, n, PyBool(FALSE), "bool",
                     IF n = "qtbase/build-tests" THEN NoFallback ELSE "qtbase/build-tests")]

\* an identity option: no fallback, the default is computed per target
BuildDirOptions(lcls) ==
    LET cls == OptionCls(lcls) IN
    [n \in {"source-root", "qtbase/build-directory", "qtbase-native/build-directory",
            "qtbase-mips/build-directory"} |->
        IF n = "source-root"
        THEN ConfigOption(cls, n, PyPath(TRUE, <<"cheri">>), "Path", NoFallback)
        ELSE ConfigOption(cls, n,
                          Computed("source-root", <<"build", BuildDirName(n)>>),
                          "Path", NoFallback)]

\* a chain of fallbacks ("for targets such as gdb-mips, etc"), every option
\* with a default of its own
GdbOptions(lcls) ==
    LET cls == OptionCls(lcls) IN
    [n \in {"gdb/build-type", "gdb-mips/build-type", "gdb-mips-hybrid/build-type"} |->
        CASE n = "gdb/build-type" ->
                ConfigOption(cls, n, PyStr(FALSE, <<"Release">>), "str", NoFallback)
          [] n = "gdb-mips/build-type" ->
                ConfigOption(cls, n, PyStr(FALSE, <<"Debug">>), "str", "gdb/build-type")
          [] OTHER ->
                ConfigOption(cls, n, PyStr(FALSE, <<"MinSizeRel">>), "str", "gdb-mips/build-type")]

\* JenkinsConfig.__init__: command-line-only options
JenkinsOptions ==
    [n \in {"cpu", "without-sdk"} |->
        IF n = "cpu"
        THEN ConfigOption("CommandLineConfigOption", n, None, "str", NoFallback)
        ELSE ConfigOption("CommandLineConfigOption", n, PyBool(FALSE), "bool", NoFallback)]

\* "no-" in front of the whole name
NegatedName_Front(name) == "no-" \o name

\* the name of the flag that switches a bool option off: "no-" goes in front
\* of the part after the last "/"
NegatedName(name) ==
    CASE name = "qtbase/build-tests"        -> "qtbase/no-build-tests"
      [] name = "qtbase-native/build-tests" -> "qtbase-native/no-build-tests"
      [] name = "qtbase-mips/build-tests"   -> "qtbase-mips/no-build-tests"
      [] OTHER                              -> "no-" \o name

\* the option strings the first add_argument call of a descriptor registers
OptionStrings(name) ==
    {"--" \o name} \cup (IF ShortName(name) = "" THEN {} ELSE {"-" \o ShortName(name)})

\* the option strings a new parser knows: -h/--help, and what the JSON
\* loader's __init__ adds
InitialFlags(lcls) ==
    {"-h", "--help"} \cup
    (IF lcls = "JsonAndCommandLineConfigLoader"
     THEN {"--config-file", "--help-all", "--help-hidden"} ELSE {})

\* the option strings of a descriptor that is backed by the command line
FlagsOf(d) ==
    IF d.cls = "DefaultValueOnlyConfigOption" THEN {}
    ELSE OptionStrings(d.name)
             \cup (IF d.valueType = "bool" THEN {"--" \o NegatedName(d.name)} ELSE {})

\* the parser after the options of a registry were added to a new loader
ParserOf(lcls, reg) == InitialFlags(lcls) \cup UNION {FlagsOf(reg[n]) : n \in DOMAIN reg}

\* an addOption that replaces the descriptor of a name that is registered
addOption_Replace(reg, flags, cls, name, default, valueType, fallback) ==
    [options |-> [n \in DOMAIN reg \cup {name} |->
                     IF n = name THEN ConfigOption(cls, name, default, valueType, fallback)
                     ELSE reg[n]],
     parser |-> flags \cup FlagsOf(ConfigOption(cls, name, default, valueType, fallback)),
     err |-> "ok"]

\* ConfigLoaderBase.addOption: the registry, the parser and the exception (or
\* "ok") it ends with.  The descriptor is constructed first: its add_argument
\* calls raise argparse.ArgumentError for an option string the parser knows;
\* then the registry is asserted not to have the name.
addOption(reg, flags, cls, name, default, valueType, fallback) ==
    LET d == ConfigOption(cls, name, default, valueType, fallback)
        first == IF cls = "DefaultValueOnlyConfigOption" THEN {} ELSE OptionStrings(name)
        negated == FlagsOf(d) \ first
    IN  IF first \cap flags # {}
        THEN [options |-> reg, parser |-> flags, err |-> "ArgumentError"]
        ELSE IF negated \cap (flags \cup first) # {}
        THEN [options |-> reg, parser |-> flags \cup first, err |-> "ArgumentError"]
        ELSE IF name \in DOMAIN reg
        THEN [options |-> reg, parser |-> flags \cup FlagsOf(d), err |-> "AssertionError"]
        ELSE [options |-> [n \in DOMAIN reg \cup {name} |-> IF n = name THEN d ELSE reg[n]],
              parser |-> flags \cup FlagsOf(d), err |-> "ok"]

\* the options the config-file tests read: cheri-bits is registered with a
\* second long flag (shortname "-bits"), qtbase/build-tests lives in the
\* "qtbase" object of a document
IncludeOptions ==
    [n \in {"cheri-bits", "source-root", "qtbase/build-tests"} |->
        CASE n = "cheri-bits" ->
                ConfigOption("JsonAndCommandLineConfigOption", n, PyInt(256), "int", NoFallback)
          [] n = "source-root" ->
                ConfigOption("JsonAndCommandLineConfigOption", n, PyPath(TRUE, <<"cheri">>),
                             "Path", NoFallback)
          [] OTHER ->
                ConfigOption("JsonAndCommandLineConfigOption", n, PyBool(FALSE), "bool",
                             NoFallback)]

(***************************************************************************)
(* Resolution.  l is the loader as the descriptors see it:                 *)
(* [options, parsedArgs, JSON, cached].                                    *)
(***************************************************************************)
EmptyDict == [k \in {} |-> None]
IsDict(v) == v.t = "dict"
PyDict(items) == [t |-> "dict", items |-> items]

\* dict.get(key, default) on a JSON value; AttributeError when it is no dict
DictGet(obj, key, default) ==
    IF IsRaise(obj) THEN obj
    ELSE IF ~IsDict(obj) THEN Raise("AttributeError")
    ELSE IF key \in DOMAIN obj.items THEN obj.items[key] ELSE default

RECURSIVE WalkJsonPath(_, _)
WalkJsonPath(obj, path) ==
    IF path = <<>> THEN obj
    ELSE WalkJsonPath(DictGet(obj, Head(path), PyDict(EmptyDict)), Tail(path))

RECURSIVE loadOption(_, _)

\* a lookup by the last name component alone: the object path is ignored and
\* the entry of another target's option is found
_lookupKeyInJson_ByKey(l, fullOptionName) ==
    IF fullOptionName \in DOMAIN l.JSON THEN l.JSON[fullOptionName]
    ELSE LET same == {k \in DOMAIN l.JSON : jsonKey(k) = jsonKey(fullOptionName)} IN
         IF same = {} THEN None ELSE l.JSON[CHOOSE k \in same : TRUE]

\* JsonAndCommandLineConfigOption._lookupKeyInJson
_lookupKeyInJson(l, fullOptionName) ==
    IF fullOptionName \in DOMAIN l.JSON THEN l.JSON[fullOptionName]
    ELSE DictGet(WalkJsonPath(PyDict(l.JSON), jsonPath(fullOptionName)),
                 jsonKey(fullOptionName), None)

\* JsonAndCommandLineConfigOption._loadFromJson: the value found, or None.
\* The long option strings are "--" + name and, for a shortname that starts
\* with "-", "-" + shortname; the loop over them repeats the first lookup and
\* then tries the alternate name.
_loadFromJson(l, d) ==
    LET result == _lookupKeyInJson(l, d.name)
        other == IF result = None /\ AlternateName(d.name) # ""
                 THEN _lookupKeyInJson(l, AlternateName(d.name)) ELSE result
    IN  IF other # None THEN other
        ELSE IF d.dest \in DOMAIN l.JSON THEN l.JSON[d.dest] ELSE None

\* the assertion left out: an unparsed command line reads as "flag not given"
loadFromCommandLine_NoAssert(l, d) ==
    IF l.parsedArgs = None THEN None ELSE l.parsedArgs.opts[d.dest]

\* CommandLineConfigOption.loadFromCommandLine
loadFromCommandLine(l, d) ==
    IF l.parsedArgs = None THEN Raise("AssertionError")
    ELSE l.parsedArgs.opts[d.dest]

\* the document consulted before the command line
_loadOptionImpl_JsonFirst(l, d) ==
    CASE d.cls = "DefaultValueOnlyConfigOption" -> None
      [] d.cls = "CommandLineConfigOption"      -> loadFromCommandLine(l, d)
      [] OTHER ->
            LET fromCmdLine == loadFromCommandLine(l, d)
                fromJson == _loadFromJson(l, d)
            IN  IF IsRaise(fromCmdLine) THEN fromCmdLine
                ELSE IF fromJson # None THEN fromJson ELSE fromCmdLine

\* the command-line value tested for truth, not against None: --no-opt reads
\* as "flag not given"
_loadOptionImpl_Truthy(l, d) ==
    CASE d.cls = "DefaultValueOnlyConfigOption" -> None
      [] d.cls = "CommandLineConfigOption"      -> loadFromCommandLine(l, d)
      [] OTHER ->
            LET fromCmdLine == loadFromCommandLine(l, d) IN
            IF fromCmdLine # None /\ ToBool(fromCmdLine).b THEN fromCmdLine
            ELSE _loadFromJson(l, d)

\* every descriptor with flags consults the document too
_loadOptionImpl_JsonForAll(l, d) ==
    CASE d.cls = "DefaultValueOnlyConfigOption" -> None
      [] OTHER ->
            LET fromCmdLine == loadFromCommandLine(l, d) IN
            IF fromCmdLine # None THEN fromCmdLine ELSE _loadFromJson(l, d)

\* _loadOptionImpl of the three descriptor classes
_loadOptionImpl(l, d) ==
    CASE d.cls = "DefaultValueOnlyConfigOption" -> None
      [] d.cls = "CommandLineConfigOption"      -> loadFromCommandLine(l, d)
      [] OTHER ->
            LET fromCmdLine == loadFromCommandLine(l, d) IN
            IF fromCmdLine # None THEN fromCmdLine ELSE _loadFromJson(l, d)

\* the fallback option consulted before the option's own JSON entry
LoadedOrFallback_FallbackFirst(l, d) ==
    LET fromCmdLine == loadFromCommandLine(l, d)
        fromFallback == IF d.fallback # NoFallback
                        THEN _loadOptionImpl(l, l.options[d.fallback]) ELSE None
    IN  IF fromCmdLine # None THEN fromCmdLine
        ELSE IF fromFallback # None THEN fromFallback
        ELSE _loadOptionImpl(l, d)

\* the fallback option consulted on the command line only
LoadedOrFallback_CmdLineOnly(l, d) ==
    LET result == _loadOptionImpl(l, d) IN
    IF result = None /\ d.fallback # NoFallback
    THEN loadFromCommandLine(l, l.options[d.fallback])
    ELSE result

\* the fallback option read as an attribute: its default included
LoadedOrFallback_Resolved(l, d) ==
    LET result == _loadOptionImpl(l, d) IN
    IF result = None /\ d.fallback # NoFallback
    THEN loadOption(l, l.options[d.fallback])
    ELSE result

\* the fallback link followed downwards too: an unset option takes the value
\* of an option that falls back to it
LoadedOrFallback_Downwards(l, d) ==
    LET result == _loadOptionImpl(l, d)
        up == IF result = None /\ d.fallback # NoFallback
              THEN _loadOptionImpl(l, l.options[d.fallback]) ELSE result
        heirs == {n \in DOMAIN l.options : l.options[n].fallback = d.name
                                            /\ _loadOptionImpl(l, l.options[n]) # None}
    IN  IF up = None /\ heirs # {}
        THEN _loadOptionImpl(l, l.options[CHOOSE n \in heirs : TRUE])
        ELSE up

\* the value loadOption has before it falls back to the default: the option's
\* own sources, then those of the fallback option
LoadedOrFallback(l, d) ==
    LET result == _loadOptionImpl(l, d) IN
    IF result = None /\ d.fallback # NoFallback
    THEN IF d.fallback \notin DOMAIN l.options THEN Raise("AssertionError")
         ELSE _loadOptionImpl(l, l.options[d.fallback])
    ELSE result

\* ConfigOptionBase.__get__: the value an attribute read returns
Get(l, name) ==
    IF l.cached[name] # None THEN l.cached[name] ELSE loadOption(l, l.options[name])

\* ConfigOptionBase._getDefaultValue
_getDefaultValue(l, d) ==
    IF d.default.t = "computed"
    THEN LET base == Get(l, d.default.dep) IN
         IF IsRaise(base) THEN base ELSE PathJoin(base, d.default.segs)
    ELSE d.default

\* the try block around _convertType in loadOption: a ValueError ends in
\* fatalError(...) and sys.exit(), any other exception propagates
loadOption_Convert(converted) ==
    IF IsRaise(converted) /\ converted.exc = "ValueError" THEN Raise("SystemExit")
    ELSE converted

\* ConfigOptionBase.loadOption
loadOption(l, d) ==
    LET found == LoadedOrFallback(l, d)
        result == IF found = None THEN _getDefaultValue(l, d) ELSE found
    IN  IF IsRaise(result) THEN result
        ELSE loadOption_Convert(_convertType(d.valueType, result))

\* the descriptors whose loadOption runs when option name is read: its own,
\* and those a computed default reads in turn
RECURSIVE LoadsOnGet(_, _)
LoadsOnGet(l, name) ==
    IF l.cached[name] # None THEN {}
    ELSE LET d == l.options[name] IN
         {name} \cup
         IF LoadedOrFallback(l, d) = None /\ d.default.t = "computed"
         THEN LoadsOnGet(l, d.default.dep) ELSE {}

(***************************************************************************)
(* Inputs: command lines, documents and file systems                       *)
(***************************************************************************)
\* paths are written as their components
DefaultConfigPath == <<"home", ".config", "cheribuild.json">>
TestConfigPath == <<"tmp", "config.json">>
MissingPath == <<"this", "does", "not", "exist">>
Paths == {DefaultConfigPath, TestConfigPath, MissingPath}

Missing == [t |-> "missing"]

\* values a flag can leave in the namespace: --opt / --no-opt, or the raw string
CmdLineValues(d) ==
    CASE d.valueType = "bool" -> {PyBool(TRUE), PyBool(FALSE)}
      [] d.valueType = "Path" -> {PyStr(TRUE, <<"foo", "bar">>)}
      [] d.valueType = "int"  -> {PyStr(FALSE, <<"128">>)}
      [] d.name = "cpu"       -> {PyStr(FALSE, <<"cheri128">>)}
      [] OTHER                -> {PyStr(FALSE, <<"RelWithDebInfo">>)}

\* values a document can hold for the option
JsonValues(d) ==
    CASE d.valueType = "bool" -> {PyBool(TRUE), PyBool(FALSE)}
      [] d.valueType = "Path" -> {PyStr(FALSE, <<"x">>)}
      [] d.valueType = "int"  -> {PyInt(128)}
      [] d.name = "cpu"       -> {PyStr(FALSE, <<"mips">>)}
      [] OTHER                -> {PyStr(FALSE, <<"Asserts">>)}

AllRawValues ==
    {None, PyBool(TRUE), PyBool(FALSE), PyStr(TRUE, <<"foo", "bar">>),
     PyStr(FALSE, <<"cheri128">>), PyStr(FALSE, <<"x">>), PyStr(FALSE, <<"mips">>),
     PyStr(FALSE, <<"RelWithDebInfo">>), PyStr(FALSE, <<"Asserts">>),
     PyStr(FALSE, <<"128">>), PyInt(128)}

OptionOfDest(reg, dest) == CHOOSE n \in DOMAIN reg : reg[n].dest = dest

\* bounds on the inputs: flags on a command line, keys in a document
MaxFlags == 2
MaxKeys == 2

\* the namespaces parse_known_args can return: every destination is None (flag
\* not given) or holds the flag's value; --config-file has a default
Namespaces(reg) ==
    LET dests == {reg[n].dest : n \in {m \in DOMAIN reg : reg[m].cls # "DefaultValueOnlyConfigOption"}}
        opts == {f \in [dests -> AllRawValues] :
                    \A x \in dests : f[x] = None \/ f[x] \in CmdLineValues(reg[OptionOfDest(reg, x)])}
        given(f, c) == Cardinality({x \in dests : f[x] # None})
                         + (IF c = DefaultConfigPath THEN 0 ELSE 1)
    IN  {[opts |-> f, config_file |-> PyStr(TRUE, c)] :
            <<f, c>> \in {fc \in opts \X {DefaultConfigPath, TestConfigPath} :
                            given(fc[1], fc[2]) <= MaxFlags}}

\* the documents over the registered option names
Documents(reg) ==
    UNION {{f \in [keys -> AllRawValues] : \A k \in keys : f[k] \in JsonValues(reg[k])} :
           keys \in {ks \in SUBSET (DOMAIN reg) : Cardinality(ks) <= MaxKeys}}

\* a file system: the test's config file holds a document, the other paths
\* do not exist
FileSystems(reg) ==
    {[p \in Paths |-> IF p = TestConfigPath THEN PyDict(doc) ELSE Missing] :
        doc \in Documents(reg)}

Registries(lcls) ==
    IF lcls = "DefaultValueOnlyConfigLoader"
    THEN {BuildTestsOptions(lcls), BuildDirOptions(lcls)}
    ELSE {BuildTestsOptions(lcls), BuildDirOptions(lcls), GdbOptions(lcls), JenkinsOptions}

AllRegistries ==
    Registries("JsonAndCommandLineConfigLoader") \cup Registries("DefaultValueOnlyConfigLoader")
        \cup {IncludeOptions}

\* the command lines each registry's parser accepts
CommandLines == [reg \in AllRegistries |-> Namespaces(reg)]

(***************************************************************************)
(* Loading the document                                                    *)
(***************************************************************************)
\* dict.update the other way round: the included file's entries win
DictUpdate_BaseWins(base, over) ==
    [k \in DOMAIN base \cup DOMAIN over |-> IF k \in DOMAIN base THEN base[k] ELSE over[k]]

\* a merge that descends into nested objects
RECURSIVE DictUpdate_Deep(_, _)
DictUpdate_Deep(base, over) ==
    [k \in DOMAIN base \cup DOMAIN over |->
        IF k \notin DOMAIN over THEN base[k]
        ELSE IF k \in DOMAIN base /\ base[k].t = "dict" /\ over[k].t = "dict"
        THEN [t |-> "dict", items |-> DictUpdate_Deep(base[k].items, over[k].items)]
        ELSE over[k]]

\* dict.update: the entries of over replace those of base
DictUpdate(base, over) ==
    [k \in DOMAIN base \cup DOMAIN over |-> IF k \in DOMAIN over THEN over[k] ELSE base[k]]

\* config_path.parent / include_value
IncludedPath(config_path, include_value) ==
    IF include_value.abs THEN include_value.segs
    ELSE SubSeq(config_path, 1, Len(config_path) - 1) \o include_value.segs

\* a text that is no JSON value
Malformed == [t |-> "malformed"]

\* the text of a JSON object: its members in the order they are written
JsonObject(pairs) == [t |-> "object", pairs |-> pairs]

\* a plain dict(ordered_pairs): the last of two equal keys is kept
dict_raise_on_duplicates_LastWins(ordered_pairs) ==
    LET keys == {ordered_pairs[i][1] : i \in DOMAIN ordered_pairs} IN
    PyDict([k \in keys |->
               ordered_pairs[CHOOSE i \in DOMAIN ordered_pairs :
                                /\ ordered_pairs[i][1] = k
                                /\ \A j \in DOMAIN ordered_pairs :
                                      ordered_pairs[j][1] = k => j <= i][2]])

\* dict_raise_on_duplicates: SyntaxError("duplicate key: k") at the first key
\* that is already in the dict
dict_raise_on_duplicates(ordered_pairs) ==
    LET dups == {i \in DOMAIN ordered_pairs :
                    \E j \in 1..(i - 1) : ordered_pairs[j][1] = ordered_pairs[i][1]}
        first == CHOOSE i \in dups : \A j \in dups : i <= j
        keys == {ordered_pairs[i][1] : i \in DOMAIN ordered_pairs}
    IN  IF dups # {}
        THEN [t |-> "raise", exc |-> "SyntaxError", key |-> ordered_pairs[first][1]]
        ELSE PyDict([k \in keys |->
                        ordered_pairs[CHOOSE i \in DOMAIN ordered_pairs :
                                         ordered_pairs[i][1] = k][2]])

\* json.loads(text, object_pairs_hook=dict_raise_on_duplicates): the hook runs
\* on every object when its closing brace is read, inner objects first
RECURSIVE json_loads(_)
json_loads(text) ==
    IF text = Malformed THEN Raise("JSONDecodeError")
    ELSE IF text.t # "object" THEN text
    ELSE LET vs == [i \in DOMAIN text.pairs |-> json_loads(text.pairs[i][2])]
             bad == {i \in DOMAIN vs : IsRaise(vs[i])}
         IN  IF bad # {} THEN vs[CHOOSE i \in bad : \A j \in bad : i <= j]
             ELSE dict_raise_on_duplicates(
                      [i \in DOMAIN text.pairs |-> <<text.pairs[i][1], vs[i]>>])

\* JsonAndCommandLineConfigLoader.__load_json_with_comments.  A file holds the
\* text of its JSON value; a file given as a dict is a well-formed object
\* text, given by the document it parses to.
__load_json_with_comments(fs, config_path) ==
    IF config_path \notin DOMAIN fs \/ fs[config_path].t = "missing"
    THEN Raise("FileNotFoundError")
    ELSE IF fs[config_path].t = "dict" THEN fs[config_path]
    ELSE json_loads(fs[config_path])

\* sys.getrecursionlimit() in calls of __load_json_with_includes: the call
\* at this depth has no stack left to read its file
RecursionLimit == 4

\* JsonAndCommandLineConfigLoader.__load_json_with_includes, depth calls into
\* the include chain: a file that cannot be loaded raises, unless stdin is a
\* terminal and the user answers "y" to "Continue?": then it reads as an empty
\* document.  Nothing remembers the files already on the chain; what ends a
\* chain that comes back to a file is the interpreter's RecursionError,
\* raised inside the try block like any other failure to load.
RECURSIVE __load_json_with_includes_At(_, _, _)
__load_json_with_includes_At(fs, config_path, depth) ==
    LET loaded == IF depth >= RecursionLimit THEN Raise("RecursionError")
                  ELSE __load_json_with_comments(fs, config_path)
        result == IF IsRaise(loaded) /\ stdin THEN PyDict(EmptyDict) ELSE loaded
    IN  IF IsRaise(result) THEN result
        ELSE IF ~IsDict(result) THEN Raise("AttributeError")
        ELSE LET include_value == DictGet(result, "#include", None) IN
             IF ~ToBool(include_value).b THEN result
             ELSE IF include_value.t # "str" THEN Raise("TypeError")
             ELSE LET base_json == __load_json_with_includes_At(
                                       fs, IncludedPath(config_path, include_value), depth + 1)
                  IN  IF IsRaise(base_json) THEN base_json
                      ELSE PyDict(DictUpdate(base_json.items, result.items))

\* JsonAndCommandLineConfigLoader.__load_json_with_includes, as
\* _load_json_config_file calls it
__load_json_with_includes(fs, config_path) == __load_json_with_includes_At(fs, config_path, 0)

\* a _load_json_config_file without its first line: the document of the
\* load before stays when the file cannot be loaded
_load_json_config_file_KeepsDocument(fs, args, path) ==
    IF path = None /\ args = None
    THEN [JSON |-> JSON, configPath |-> path, err |-> "AttributeError"]
    ELSE LET p == IF path = None THEN Absolute(args.config_file) ELSE path
             exists == p.segs \in DOMAIN fs /\ fs[p.segs] # Missing
             loaded == __load_json_with_includes(fs, p.segs)
         IN  IF ~exists THEN [JSON |-> JSON, configPath |-> p, err |-> "ok"]
             ELSE IF IsRaise(loaded)
             THEN [JSON |-> JSON, configPath |-> p, err |-> loaded.exc]
             ELSE [JSON |-> loaded.items, configPath |-> p, err |-> "ok"]

\* JsonAndCommandLineConfigLoader._load_json_config_file: the document, the
\* config path and the exception (or "ok") it ends with
_load_json_config_file(fs, args, path) ==
    IF path = None /\ args = None
    THEN [JSON |-> EmptyDict, configPath |-> path, err |-> "AttributeError"]
    ELSE LET p == IF path = None THEN Absolute(args.config_file) ELSE path
             exists == p.segs \in DOMAIN fs /\ fs[p.segs] # Missing
             loaded == __load_json_with_includes(fs, p.segs)
         IN  IF ~exists THEN [JSON |-> EmptyDict, configPath |-> p, err |-> "ok"]
             ELSE IF IsRaise(loaded)
             THEN [JSON |-> EmptyDict, configPath |-> p, err |-> loaded.exc]
             ELSE [JSON |-> loaded.items, configPath |-> p, err |-> "ok"]

\* a validation that does not descend into nested objects
__validate_Flat(reg, prefix, key, value) ==
    LET fullname == prefix \o key IN
    IF fullname = "#include" \/ fullname \in DOMAIN reg THEN {}
    ELSE IF \E n \in DOMAIN reg : AlternateName(n) # "" /\ fullname = AlternateName(n) THEN {}
    ELSE {fullname}

\* JsonAndCommandLineConfigLoader.__validate: the full names it reports as
\* unknown config options
RECURSIVE __validate(_, _, _, _)
__validate(reg, prefix, key, value) ==
    LET fullname == prefix \o key IN
    IF IsDict(value)
    THEN UNION {__validate(reg, fullname \o "/", k, value.items[k]) : k \in DOMAIN value.items}
    ELSE IF fullname = "#include" THEN {}
    ELSE IF fullname \in DOMAIN reg THEN {}
    ELSE IF \E n \in DOMAIN reg : AlternateName(n) # "" /\ fullname = AlternateName(n) THEN {}
    ELSE {fullname}

\* JsonAndCommandLineConfigLoader._validateConfigFile: the document it leaves,
\* what it reports and how it ends
_validateConfigFile(reg, json) ==
    [JSON |-> json,
     warnings |-> UNION {__validate(reg, "", k, json[k]) : k \in DOMAIN json},
     err |-> "ok"]

(***************************************************************************)
(* The state machine                                                       *)
(***************************************************************************)
MaxResolutions == 2

LoaderClasses ==
    {"JsonAndCommandLineConfigLoader", "DefaultValueOnlyConfigLoader"}

\* a reset that leaves the caches alone
reset_Keep(c) == c

\* ConfigLoaderBase.reset: every descriptor's cache is cleared
reset(c) == [n \in DOMAIN c |-> None]

\* the loader as the descriptors see it
Loader == [options |-> options, parsedArgs |-> parsedArgs, JSON |-> JSON, cached |-> cached]

Init ==
    /\ loaderCls \in LoaderClasses
    /\ options \in Registries(loaderCls)
    /\ parser = ParserOf(loaderCls, options)
    /\ parsedArgs = None
    /\ JSON = EmptyDict
    /\ configPath = None
    /\ files \in IF loaderCls = "DefaultValueOnlyConfigLoader"
                 THEN {[p \in Paths |-> Missing]} ELSE FileSystems(options)
    /\ cached = [n \in DOMAIN options |-> None]
    /\ resolutions = [n \in DOMAIN options |-> 0]
    /\ err = "ok"
    /\ stdin = FALSE
    /\ warnings = {}
    /\ jenkins = Unassigned

\* the test harness points the loader at a config file (_parse_arguments)
SetConfigPath(p) ==
    /\ loaderCls = "JsonAndCommandLineConfigLoader"
    /\ configPath' = PyPath(TRUE, p)
    /\ err' = "ok"
    /\ UNCHANGED <<jenkins, loaderCls, options, parser, parsedArgs, JSON, files, cached, resolutions,
                   stdin, warnings>>

\* a load() that begins like reload(): every cache is cleared
Load_Invalidating(ns) ==
    /\ IF loaderCls = "DefaultValueOnlyConfigLoader"
       THEN /\ err' = "ok"
            /\ UNCHANGED <<parsedArgs, JSON, configPath, warnings>>
       ELSE \E r \in {_load_json_config_file(files, ns, configPath)} :
            /\ parsedArgs' = ns
            /\ configPath' = r.configPath
            /\ IF r.err # "ok"
               THEN JSON' = r.JSON /\ err' = r.err /\ UNCHANGED warnings
               ELSE \E v \in {_validateConfigFile(options, r.JSON)} :
                    JSON' = v.JSON /\ err' = v.err /\ warnings' = v.warnings
    /\ cached' = reset(cached)
    /\ resolutions' = [n \in DOMAIN options |-> 0]
    /\ UNCHANGED <<jenkins, loaderCls, options, parser, files, stdin>>

\* load(): parse the command line into ns, then read the config file
Load(ns) ==
    /\ IF loaderCls = "DefaultValueOnlyConfigLoader"
       THEN /\ err' = "ok"
            /\ UNCHANGED <<parsedArgs, JSON, configPath, warnings>>
       ELSE \E r \in {_load_json_config_file(files, ns, configPath)} :
            /\ parsedArgs' = ns
            /\ configPath' = r.configPath
            /\ IF r.err # "ok"
               THEN JSON' = r.JSON /\ err' = r.err /\ UNCHANGED warnings
               ELSE \E v \in {_validateConfigFile(options, r.JSON)} :
                    JSON' = v.JSON /\ err' = v.err /\ warnings' = v.warnings
    /\ UNCHANGED <<jenkins, loaderCls, options, parser, files, cached, resolutions, stdin>>

\* reset(): clear every cache; the JSON loader reads the config file again
Reset ==
    /\ cached' = reset(cached)
    /\ resolutions' = [n \in DOMAIN options |-> 0]
    /\ IF loaderCls = "DefaultValueOnlyConfigLoader"
       THEN /\ err' = "ok"
            /\ UNCHANGED <<JSON, configPath>>
       ELSE \E r \in {_load_json_config_file(files, parsedArgs, configPath)} :
            /\ JSON' = r.JSON
            /\ configPath' = r.configPath
            /\ err' = r.err
    /\ UNCHANGED <<jenkins, loaderCls, options, parser, parsedArgs, files, stdin, warnings>>

\* reload(): reset(), then load() unless reset() raised
Reload(ns) ==
    /\ cached' = reset(cached)
    /\ resolutions' = [n \in DOMAIN options |-> 0]
    /\ IF loaderCls = "DefaultValueOnlyConfigLoader"
       THEN /\ err' = "ok"
            /\ UNCHANGED <<parsedArgs, JSON, configPath, warnings>>
       ELSE \E r1 \in {_load_json_config_file(files, parsedArgs, configPath)} :
            IF r1.err # "ok"
            THEN /\ JSON' = r1.JSON
                 /\ configPath' = r1.configPath
                 /\ err' = r1.err
                 /\ UNCHANGED <<parsedArgs, warnings>>
            ELSE \E r2 \in {_load_json_config_file(files, ns, r1.configPath)} :
                 /\ parsedArgs' = ns
                 /\ configPath' = r2.configPath
                 /\ IF r2.err # "ok"
                    THEN JSON' = r2.JSON /\ err' = r2.err /\ UNCHANGED warnings
                    ELSE \E v \in {_validateConfigFile(options, r2.JSON)} :
                         JSON' = v.JSON /\ err' = v.err /\ warnings' = v.warnings
    /\ UNCHANGED <<jenkins, loaderCls, options, parser, files, stdin>>

\* an attribute read of option name: ConfigOptionBase.__get__
Read(name) ==
    LET l == Loader
        loads == LoadsOnGet(l, name)
        done == {n \in loads : ~IsRaise(loadOption(l, options[n]))}
        value == Get(l, name)
    IN  /\ \A n \in loads : resolutions[n] < MaxResolutions
        /\ cached' = [n \in DOMAIN options |->
                         IF n \in done THEN loadOption(l, options[n]) ELSE cached[n]]
        /\ resolutions' = [n \in DOMAIN options |->
                              IF n \in done THEN resolutions[n] + 1 ELSE resolutions[n]]
        /\ err' = IF IsRaise(value) THEN value.exc ELSE "ok"
        /\ UNCHANGED <<jenkins, loaderCls, options, parser, parsedArgs, JSON, configPath, files,
                       stdin, warnings>>

\* the runs of the program: the loader's own operations; the config path is
\* set by load() alone
Next ==
    \/ \E ns \in CommandLines[options] : Load(ns)
    \/ Reset
    \/ \E ns \in CommandLines[options] : Reload(ns)
    \/ \E name \in DOMAIN options : Read(name)

Spec == Init /\ [][Next]_vars

\* the runs of the test harness: it points the loader at a config file of its
\* own and every parse is a reload()
NextReload ==
    \/ \E p \in {TestConfigPath, MissingPath} : SetConfigPath(p)
    \/ Reset
    \/ \E ns \in CommandLines[options] : Reload(ns)
    \/ \E name \in DOMAIN options : Read(name)

SpecReload == Init /\ [][NextReload]_vars

(***************************************************************************)
(* The config-file tests: files that include other files                   *)
(***************************************************************************)
\* bound on the number of members written in the test's config file
MaxPairs == 2

ConfigDir == <<"tmp">>

\* the files the tests write next to the config file
CommonFiles ==
    [name \in {"common.json", "change-source-root.json", "duplicate.json"} |->
        CASE name = "common.json" ->
                JsonObject(<<
                    <<"cheri-bits", PyInt(256)>>,
                    <<"source-root", PyStr(TRUE, <<"this", "is", "a", "unit", "test">>)>>,
                    <<"qtbase", JsonObject(<<<<"build-tests", PyBool(TRUE)>>,
                                             <<"build-type", PyStr(FALSE, <<"Debug">>)>>>>)>> >>)
          [] name = "change-source-root.json" ->
                JsonObject(<<
                    <<"source-root", PyStr(TRUE, <<"source", "root", "override">>)>>,
                    <<"#include", PyStr(FALSE, <<"common.json">>)>> >>)
          [] OTHER ->
                JsonObject(<<
                    <<"cheri-bits", PyInt(128)>>,
                    <<"some-other-key", PyStr(FALSE, <<"abc">>)>>,
                    <<"cheri-bits", PyInt(256)>> >>)]

\* the members the config file is written from
ConfigPairs ==
    {<<"#include", PyStr(FALSE, <<name>>)>> :
        name \in {"common.json", "change-source-root.json", "duplicate.json", "bad-path.json"}}
    \cup {<<"cheri-bits", PyInt(128)>>,
          <<"source-root", PyStr(TRUE, <<"override", "twice">>)>>,
          <<"bits", PyInt(128)>>,
          <<"foo", PyStr(FALSE, <<"bar">>)>>,
          <<"qtbase", JsonObject(<<<<"build-tests", PyBool(FALSE)>>>>)>>,
          <<"qtbase", JsonObject(<<<<"build-tests", PyBool(FALSE)>>,
                                   <<"build-tests", PyBool(TRUE)>>>>)>>}

\* the texts of the config file: up to MaxPairs members in every order
ConfigTexts == {JsonObject(pairs) : pairs \in UNION {[1..n -> ConfigPairs] : n \in 0..MaxPairs}}

\* the test's directory: the config file, the common files; bad-path.json
\* is not there
IncludeFileSystems ==
    {[p \in Paths \cup {ConfigDir \o <<name>> : name \in DOMAIN CommonFiles} |->
        IF p = TestConfigPath THEN text
        ELSE IF p \in Paths THEN Missing
        ELSE CommonFiles[p[2]]] : text \in ConfigTexts}

\* the command lines of the config-file tests: no flag, or --cheri-bits
IncludeCommandLines ==
    {ns \in CommandLines[IncludeOptions] :
        /\ ns.config_file.segs = DefaultConfigPath
        /\ \A x \in DOMAIN ns.opts : x # "cheri_bits" => ns.opts[x] = None}

InitInclude ==
    /\ loaderCls = "JsonAndCommandLineConfigLoader"
    /\ options = IncludeOptions
    /\ parser = ParserOf(loaderCls, options)
    /\ parsedArgs = None
    /\ JSON = EmptyDict
    /\ configPath = None
    /\ files \in IncludeFileSystems
    /\ cached = [n \in DOMAIN options |-> None]
    /\ resolutions = [n \in DOMAIN options |-> 0]
    /\ err = "ok"
    /\ stdin \in BOOLEAN
    /\ warnings = {}
    /\ jenkins = Unassigned

NextInclude ==
    \/ SetConfigPath(TestConfigPath)
    \/ Reset
    \/ \E ns \in IncludeCommandLines : Reload(ns)
    \/ \E name \in DOMAIN options : Read(name)

SpecInclude == InitInclude /\ [][NextInclude]_vars

(***************************************************************************)
(* Coercion: a loader with one option of every value type                  *)
(***************************************************************************)
\* one option per value type, registered with addOption(name, type=...)
CoerceNames == {"sdk-archive", "source-root", "skip-update", "cheri-bits", "action",
                "cmake-options"}

CoerceOption(name) ==
    CASE name = "sdk-archive" ->
            ConfigOption("JsonAndCommandLineConfigOption", name, None, "str", NoFallback)
      [] name = "source-root" ->
            ConfigOption("JsonAndCommandLineConfigOption", name, PyPath(TRUE, <<"cheri">>),
                         "Path", NoFallback)
      [] name = "skip-update" ->
            ConfigOption("JsonAndCommandLineConfigOption", name, PyBool(FALSE), "bool",
                         NoFallback)
      [] name = "cheri-bits" ->
            ConfigOption("JsonAndCommandLineConfigOption", name, PyInt(256), "int", NoFallback)
      [] name = "action" ->
            ConfigOption("JsonAndCommandLineConfigOption", name, PyEnum("BUILD"), "enum",
                         NoFallback)
      [] OTHER ->
            ConfigOption("JsonAndCommandLineConfigOption", name, PyList(<<>>), "list",
                         NoFallback)

\* the loaders under test: one option each
CoerceRegistries == {[n \in {name} |-> CoerceOption(name)] : name \in CoerceNames}

Word(text) == PyStr(FALSE, <<text>>)

\* what a document can hold for an option: JSON has strings, numbers,
\* booleans and arrays whatever the type of the option
JsonRawValues(d) ==
    CASE d.valueType = "str"  -> {Word("mips"), PyInt(128), PyBool(TRUE)}
      [] d.valueType = "Path" -> {PyStr(TRUE, <<"foo", "bar">>), PyStr(FALSE, <<"x">>),
                                  PyStr(FALSE, <<"~", "y">>), PyStr(FALSE, <<"$A", "y">>),
                                  PyInt(128)}
      [] d.valueType = "bool" -> {PyBool(TRUE), PyBool(FALSE), Word("false"), Word("maybe"),
                                  PyInt(0)}
      [] d.valueType = "int"  -> {PyInt(128), Word("128"), Word("abc"), PyBool(TRUE),
                                  PyList(<<PyInt(1)>>)}
      [] d.valueType = "enum" -> {Word("build"), Word("extract-sdk"), Word("bogus"),
                                  PyList(<<Word("build"), Word("create_tarball")>>), PyInt(1)}
      [] OTHER                -> {PyList(<<Word("a"), Word("b")>>), Word("a b"), Word("'a"),
                                  PyInt(1)}

\* what a flag can leave in the namespace: argparse stores the text as it is
\* (no type=), True/False for a bool option, and admits only the lower-case
\* member names (choices=) for an enum option
CmdLineRawValues(d) ==
    CASE d.valueType = "str"  -> {Word("mips")}
      [] d.valueType = "Path" -> {PyStr(FALSE, <<"~", "y">>), PyStr(FALSE, <<"$A", "y">>)}
      [] d.valueType = "bool" -> {PyBool(TRUE), PyBool(FALSE)}
      [] d.valueType = "int"  -> {Word("128"), Word("abc")}
      [] d.valueType = "enum" -> {Word("build"), Word("extract_sdk")}
      [] OTHER                -> {Word("a b"), Word("'a")}

\* the command lines: the option's flag or not, --config-file or not
CoerceCommandLines(reg) ==
    {[opts |-> [x \in {reg[n].dest : n \in DOMAIN reg} |-> v],
      config_file |-> PyStr(TRUE, c)] :
        v \in {None} \cup UNION {CmdLineRawValues(reg[n]) : n \in DOMAIN reg},
        c \in {DefaultConfigPath, TestConfigPath}}

\* the config file: empty, or one entry for the option
CoerceFileSystems(reg) ==
    {[p \in Paths |-> IF p = TestConfigPath THEN PyDict(doc) ELSE Missing] :
        doc \in {EmptyDict} \cup
                UNION {{[k \in {n} |-> v] : v \in JsonRawValues(reg[n])} : n \in DOMAIN reg}}

InitCoerce ==
    /\ loaderCls = "JsonAndCommandLineConfigLoader"
    /\ options \in CoerceRegistries
    /\ parser = ParserOf(loaderCls, options)
    /\ parsedArgs = None
    /\ JSON = EmptyDict
    /\ configPath = None
    /\ files \in CoerceFileSystems(options)
    /\ cached = [n \in DOMAIN options |-> None]
    /\ resolutions = [n \in DOMAIN options |-> 0]
    /\ err = "ok"
    /\ stdin = FALSE
    /\ warnings = {}
    /\ jenkins = Unassigned

NextCoerce ==
    \/ \E ns \in CoerceCommandLines(options) : Load(ns)
    \/ \E name \in DOMAIN options : Read(name)

SpecCoerce == InitCoerce /\ [][NextCoerce]_vars

(***************************************************************************)
(* Registration: a configuration object adds its options to a new loader   *)
(***************************************************************************)
\* the options JenkinsConfig.__init__ registers, their types and the
\* defaults they can get ($CPU set or not, the number of processors)
RegisteredNames == {"cpu", "make-jobs", "without-sdk"}

ValueTypeOf(name) ==
    CASE name = "cpu"       -> "str"
      [] name = "make-jobs" -> "int"
      [] OTHER              -> "bool"

DefaultsOf(name) ==
    CASE name = "cpu"       -> {None, PyStr(FALSE, <<"mips">>)}
      [] name = "make-jobs" -> {PyInt(1), PyInt(8)}
      [] OTHER              -> {PyBool(FALSE), PyBool(TRUE)}

\* the classes a registration can ask for: the loader's own (addOption) or
\* CommandLineConfigOption (addCommandLineOnlyOption)
OptionClasses(lcls) == {OptionCls(lcls), "CommandLineConfigOption"}

InitRegister ==
    /\ loaderCls \in LoaderClasses
    /\ options = EmptyDict
    /\ parser = InitialFlags(loaderCls)
    /\ parsedArgs = None
    /\ JSON = EmptyDict
    /\ configPath = None
    /\ files = [p \in Paths |-> Missing]
    /\ cached = EmptyDict
    /\ resolutions = EmptyDict
    /\ err = "ok"
    /\ stdin = FALSE
    /\ warnings = {}
    /\ jenkins = Unassigned

\* loader.addOption(name, ...) / loader.addCommandLineOnlyOption(name, ...)
AddOption(cls, name, default) ==
    \E r \in {addOption(options, parser, cls, name, default, ValueTypeOf(name), NoFallback)} :
        /\ options' = r.options
        /\ parser' = r.parser
        /\ err' = r.err
        /\ cached' = [n \in DOMAIN r.options |-> IF n \in DOMAIN cached THEN cached[n] ELSE None]
        /\ resolutions' = [n \in DOMAIN r.options |->
                              IF n \in DOMAIN resolutions THEN resolutions[n] ELSE 0]
        /\ UNCHANGED <<jenkins, loaderCls, parsedArgs, JSON, configPath, files, stdin, warnings>>

NextRegister ==
    \E cls \in OptionClasses(loaderCls), name \in RegisteredNames :
        \E default \in DefaultsOf(name) : AddOption(cls, name, default)

SpecRegister == InitRegister /\ [][NextRegister]_vars

(***************************************************************************)
(* Properties                                                              *)
(***************************************************************************)
Loaded == parsedArgs # None

\* the options backed by the command line and the document
JsonOptions == {n \in DOMAIN options : options[n].cls = "JsonAndCommandLineConfigOption"}

\* the options declared with a fallback (the per-target variants)
Variants == {n \in JsonOptions : options[n].fallback # NoFallback}

\* what the command line holds for the option: None when no flag was given
OnCmdLine(n) == parsedArgs.opts[options[n].dest]

\* what a document holds for the option, under its name, as a nested object
\* or under the legacy key: None when absent
EntryOf(doc, n) ==
    LET group == jsonPath(n) IN
    IF n \in DOMAIN doc THEN doc[n]
    ELSE IF Len(group) = 1 /\ group[1] \in DOMAIN doc /\ IsDict(doc[group[1]])
            /\ jsonKey(n) \in DOMAIN doc[group[1]].items
    THEN doc[group[1]].items[jsonKey(n)]
    ELSE IF options[n].dest \in DOMAIN doc THEN doc[options[n].dest]
    ELSE None

InJson(n) == EntryOf(JSON, n)

\* the option is set on the command line or in the document
IsSet(n) == OnCmdLine(n) # None \/ InJson(n) # None

\* the value given for a set option: the command line before the document
GivenValue(n) == IF OnCmdLine(n) # None THEN OnCmdLine(n) ELSE InJson(n)

\* the value a read of the option returns in this state
Value(n) == Get(Loader, n)

Coerced(n, v) == _convertType(options[n].valueType, v)

\* the option's own default, a computed one evaluated on the live config
OwnDefault(n) ==
    LET d == options[n].default IN
    IF d.t = "computed" THEN PathJoin(Value(d.dep), d.segs) ELSE d

\* the first value of a sequence that is not None
RECURSIVE FirstSet(_)
FirstSet(vs) ==
    IF vs = <<>> THEN None
    ELSE IF Head(vs) # None THEN Head(vs) ELSE FirstSet(Tail(vs))

\* no option read yet
Uncached == [n \in DOMAIN options |-> None]

\* the loader after another parse that differs in one command-line value
WithCmdLine(n, v) ==
    [Loader EXCEPT !.parsedArgs.opts[options[n].dest] = v, !.cached = Uncached]

\* the loader after another parse that differs in one document entry
WithJson(n, v) ==
    [Loader EXCEPT !.JSON = IF v = None
                             THEN [k \in DOMAIN JSON \ {n} |-> JSON[k]]
                             ELSE [k \in DOMAIN JSON \cup {n} |-> IF k = n THEN v ELSE JSON[k]],
                   !.cached = Uncached]

\* C1: a variant that is set on the command line or in the document resolves
\* to its own value (command line before document), wherever the base option
\* is set: a variant's JSON entry wins over the base's command-line flag.
C1_TargetSpecificWins ==
    Loaded => \A n \in Variants :
        IsSet(n) => Value(n) = Coerced(n, GivenValue(n))

\* a variant set to false in the document only was read, the base being set
\* to true on the command line
C1_Witness ==
    /\ Loaded
    /\ \E n \in Variants :
          /\ OnCmdLine(n) = None /\ InJson(n) = PyBool(FALSE)
          /\ OnCmdLine(options[n].fallback) = PyBool(TRUE)
          /\ cached[n] = PyBool(FALSE)

\* C2: a variant that is not set resolves to the value of its base option
\* when the base is set on the command line or in the document, and a base set
\* in the document only gives the base and every variant the values that the
\* same setting on the command line gives.
C2_InheritsFromBase ==
    Loaded => \A n \in Variants :
        LET b == options[n].fallback IN
        (~IsSet(n) /\ IsSet(b)) =>
            /\ Value(n) = Coerced(n, GivenValue(b))
            /\ Value(n) = Value(b)
            /\ (OnCmdLine(b) = None =>
                  LET moved == [WithCmdLine(b, InJson(b)) EXCEPT
                                   !.JSON = [k \in DOMAIN JSON \ {b} |-> JSON[k]]]
                  IN  \A m \in {b} \cup {v \in Variants : options[v].fallback = b} :
                         loadOption(moved, options[m]) = Value(m))

\* an unset variant was read whose base is set to true in the document only
C2_Witness ==
    /\ Loaded
    /\ \E n \in Variants :
          /\ ~IsSet(n)
          /\ OnCmdLine(options[n].fallback) = None
          /\ InJson(options[n].fallback) = PyBool(TRUE)
          /\ cached[n] = PyBool(TRUE)
          /\ cached[options[n].fallback] = PyBool(TRUE)

\* C3: setting a variant, on the command line or in the document, changes
\* that variant only: the base option and every sibling resolve to what they
\* resolve to without the setting.
C3_OnlyThatVariant ==
    Loaded => \A n \in Variants : \A m \in JsonOptions :
        (m # n /\ options[m].fallback # n) =>
            /\ \A v \in CmdLineValues(options[n]) \cup {None} :
                  loadOption(WithCmdLine(n, v), options[m]) = Value(m)
            /\ \A v \in JsonValues(options[n]) \cup {None} :
                  loadOption(WithJson(n, v), options[m]) = Value(m)

\* the base is set to true, one variant is set to false, and the base and the
\* sibling were read as true
C3_Witness ==
    /\ Loaded
    /\ \E n \in Variants : \E m \in Variants :
          /\ m # n /\ options[m].fallback = options[n].fallback
          /\ OnCmdLine(n) = PyBool(FALSE)
          /\ ~IsSet(m)
          /\ cached[options[n].fallback] = PyBool(TRUE)
          /\ cached[m] = PyBool(TRUE)
          /\ cached[n] = PyBool(FALSE)

\* C4: when neither the option nor its fallback option is set, the option
\* resolves to its own default, not to the default of the fallback option.
C4_OwnDefault ==
    Loaded => \A n \in Variants :
        (~IsSet(n) /\ ~IsSet(options[n].fallback)) =>
            Value(n) = Coerced(n, OwnDefault(n))

\* an unset variant of an unset base was read and its default is not the
\* default of the base
C4_Witness ==
    /\ Loaded
    /\ \E n \in Variants :
          /\ ~IsSet(n) /\ ~IsSet(options[n].fallback)
          /\ options[n].default # options[options[n].fallback].default
          /\ cached[n] = Coerced(n, options[n].default)
          /\ cached[n] # Coerced(n, options[options[n].fallback].default)

\* the options that share the last name component with n: the same option of
\* the base project and of the other targets
Relatives(n) == {m \in JsonOptions : m # n /\ jsonKey(m) = jsonKey(n)}

\* the identity-like options: declared without a fallback, one per target
IdentityOptions ==
    {n \in JsonOptions : options[n].fallback = NoFallback /\ jsonKey(n) = "build-directory"}

\* C5: an option declared without a fallback never takes its value from the
\* base or a sibling: another command-line or document value for a relative's
\* option leaves its resolved value the same, and the build directories of
\* three targets left at their defaults are pairwise distinct.
C5_IdentityNotInherited ==
    Loaded =>
        /\ \A n \in IdentityOptions : \A m \in Relatives(n) :
              /\ \A v \in CmdLineValues(options[m]) \cup {None} :
                    loadOption(WithCmdLine(m, v), options[n]) = Value(n)
              /\ \A v \in JsonValues(options[m]) \cup {None} :
                    loadOption(WithJson(m, v), options[n]) = Value(n)
        /\ \A n \in IdentityOptions : \A m \in IdentityOptions :
              (n # m /\ ~IsSet(n) /\ ~IsSet(m)) => Value(n) # Value(m)

\* the base's build directory is set, a variant's is not, and the three were
\* read with three distinct results
C5_Witness ==
    /\ Loaded
    /\ Cardinality(IdentityOptions) = 3
    /\ \E b \in IdentityOptions : \E n \in IdentityOptions :
          /\ b # n /\ IsSet(b) /\ ~IsSet(n)
          /\ cached[b] = Coerced(b, GivenValue(b))
          /\ cached[n] = Coerced(n, OwnDefault(n))
    /\ \A n \in IdentityOptions : cached[n] # None
    /\ Cardinality({cached[n] : n \in IdentityOptions}) = 3

\* the boolean options with default false and no fallback
PlainBoolOptions ==
    {n \in JsonOptions : /\ options[n].valueType = "bool"
                         /\ options[n].default = PyBool(FALSE)
                         /\ options[n].fallback = NoFallback}

\* C6: a boolean option with default false and no fallback resolves to true
\* for --opt and to false for --no-opt whatever the document says, else to the
\* document's value if present, else to false.
C6_BoolTruthTable ==
    Loaded => \A n \in PlainBoolOptions :
        Value(n) = CASE OnCmdLine(n) = PyBool(TRUE)  -> PyBool(TRUE)
                     [] OnCmdLine(n) = PyBool(FALSE) -> PyBool(FALSE)
                     [] InJson(n) = PyBool(TRUE)     -> PyBool(TRUE)
                     [] InJson(n) = PyBool(FALSE)    -> PyBool(FALSE)
                     [] OTHER                        -> PyBool(FALSE)

\* --no-opt was given against a document that says true, and false was read
C6_Witness ==
    /\ Loaded
    /\ \E n \in PlainBoolOptions :
          /\ OnCmdLine(n) = PyBool(FALSE)
          /\ InJson(n) = PyBool(TRUE)
          /\ cached[n] = PyBool(FALSE)

\* C7 as stated: the sources are consulted in the order own command line,
\* fallback option (command line or document), own document, default.
C7_FallbackBeforeOwnJson ==
    Loaded => \A n \in JsonOptions :
        LET b == options[n].fallback IN
        Value(n) = Coerced(n, FirstSet(<<OnCmdLine(n),
                                         IF b = NoFallback THEN None ELSE OnCmdLine(b),
                                         IF b = NoFallback THEN None ELSE InJson(b),
                                         InJson(n),
                                         OwnDefault(n)>>))

\* C7 amended: the sources are consulted in the order own command line, own
\* document, fallback option (its command line, then its document), default:
\* the first that is not None is the value, so the option's own document
\* entry is used before the fallback option is consulted.
C7_ResolutionOrder ==
    Loaded => \A n \in JsonOptions :
        LET b == options[n].fallback IN
        Value(n) = Coerced(n, FirstSet(<<OnCmdLine(n),
                                         InJson(n),
                                         IF b = NoFallback THEN None ELSE OnCmdLine(b),
                                         IF b = NoFallback THEN None ELSE InJson(b),
                                         OwnDefault(n)>>))

\* an option was read that is set in the document only while its fallback
\* option is set to another value
C7_Witness ==
    /\ Loaded
    /\ \E n \in Variants :
          /\ OnCmdLine(n) = None /\ InJson(n) # None
          /\ IsSet(options[n].fallback)
          /\ Coerced(n, GivenValue(options[n].fallback)) # Coerced(n, InJson(n))
          /\ cached[n] = Coerced(n, InJson(n))

\* C8 as stated: no option is resolved more than once between two resets,
\* whatever its value, None included.
C8_ResolvedOnce == \A n \in DOMAIN options : resolutions[n] <= 1

\* C9: after any sequence of reloads, a value read is the value resolved from
\* the command line and the document of the last reload alone, computed
\* defaults that depend on another option included: no value cached under an
\* earlier parse survives.
C9_NoStaleValue ==
    \A n \in DOMAIN options :
        cached[n] # None =>
            cached[n] = loadOption([Loader EXCEPT !.cached = Uncached], options[n])

\* a build directory was read as its default under the source root given on
\* the command line
C9_Witness ==
    /\ Loaded
    /\ \E n \in IdentityOptions :
          /\ ~IsSet(n)
          /\ OnCmdLine("source-root") = PyStr(TRUE, <<"foo", "bar">>)
          /\ cached[n] = PyPath(TRUE, <<"foo", "bar">> \o options[n].default.segs)

\* C10 as stated: while no command line has been parsed, a read of any
\* registered option fails the assertion and yields no value.
C10_NoReadBeforeParse ==
    [][\A n \in DOMAIN options :
          (parsedArgs = None /\ Read(n)) => (err' = "AssertionError" /\ cached' = cached)]_vars

\* C10 amended: while no command line has been parsed, a read of any option
\* backed by the command line (CommandLineConfigOption and its subclass) fails
\* the assertion and yields no value; a DefaultValueOnlyConfigOption never
\* consults the command line and reads as its default at any time.
C10_NoCmdLineReadBeforeParse ==
    [][\A n \in DOMAIN options :
          (parsedArgs = None /\ Read(n)) =>
              IF options[n].cls = "DefaultValueOnlyConfigOption"
              THEN err' = "ok" /\ cached'[n] = Coerced(n, OwnDefault(n))
              ELSE err' = "AssertionError" /\ cached' = cached]_vars

\* a read was refused before any command line was parsed
C10_Witness ==
    /\ parsedArgs = None
    /\ loaderCls = "JsonAndCommandLineConfigLoader"
    /\ err = "AssertionError"
    /\ \A n \in DOMAIN options : cached[n] = None

(***************************************************************************)
(* Included files                                                          *)
(***************************************************************************)
\* what a file contributes to the document: its members; after "Continue?"
\* was answered with "y" a file that cannot be loaded contributes nothing
FileDoc(fs, p) ==
    LET loaded == __load_json_with_comments(fs, p) IN
    IF IsRaise(loaded) \/ ~IsDict(loaded) THEN EmptyDict ELSE loaded.items

\* the file an #include member of the file at p names, <<>> for none
IncludeOf(fs, p) ==
    LET doc == FileDoc(fs, p) IN
    IF "#include" \in DOMAIN doc /\ doc["#include"].t = "str" /\ ToBool(doc["#include"]).b
    THEN IncludedPath(p, doc["#include"]) ELSE <<>>

\* the config file, the file it includes, the file that one includes, ...
RECURSIVE IncludeChain(_, _)
IncludeChain(fs, p) ==
    <<p>> \o (IF IncludeOf(fs, p) = <<>> THEN <<>> ELSE IncludeChain(fs, IncludeOf(fs, p)))

\* every key with the value of the first file of the chain that has it
NearestWins(fs, chain) ==
    LET has(k) == {i \in DOMAIN chain : k \in DOMAIN FileDoc(fs, chain[i])} IN
    [k \in UNION {DOMAIN FileDoc(fs, chain[i]) : i \in DOMAIN chain} |->
        FileDoc(fs, chain[CHOOSE i \in has(k) : \A j \in has(k) : i <= j])[k]]

\* the config file was loaded, and the load of it ended well
ConfigLoaded == Loaded /\ configPath # None /\ configPath.segs = TestConfigPath /\ err = "ok"

\* C11: when a chain of files is loaded through #include, every key of the
\* document has the value of the file nearest to the config file that has the
\* key: the including file wins at every level, wherever the #include member
\* is written among the members of a file.
C11_IncludingFileWins ==
    [][\A ns \in IncludeCommandLines :
          (Reload(ns) /\ err' = "ok") =>
              JSON' = NearestWins(files, IncludeChain(files, configPath'.segs))]_vars

\* a chain of three files was loaded; the config file has its #include
\* member last and overrides a key that both files below it set
C11_Witness ==
    /\ ConfigLoaded
    /\ Len(IncludeChain(files, TestConfigPath)) = 3
    /\ Len(files[TestConfigPath].pairs) = 2
    /\ files[TestConfigPath].pairs[2][1] = "#include"
    /\ files[TestConfigPath].pairs[1][1] = "source-root"
    /\ {"source-root", "cheri-bits"} \subseteq DOMAIN JSON
    /\ JSON["source-root"] = files[TestConfigPath].pairs[1][2]
    /\ "source-root" \in DOMAIN FileDoc(files, IncludeChain(files, TestConfigPath)[2])
    /\ "source-root" \in DOMAIN FileDoc(files, IncludeChain(files, TestConfigPath)[3])
    /\ JSON["cheri-bits"] = PyInt(256)
    /\ cached["source-root"] = PyPath(TRUE, <<"override", "twice">>)

\* the document the file included by the file at p loads to, on its own
IncludedDoc(fs, p) ==
    IF IncludeOf(fs, p) = <<>> THEN EmptyDict
    ELSE NearestWins(fs, IncludeChain(fs, IncludeOf(fs, p)))

\* C12: the merge is a one-level overlay of top-level keys: every top-level
\* key of the including file has exactly that file's value, a nested object
\* included (none of the included file's members of that object survive), and
\* every other key has the value of the included document.
C12_TopLevelOverlay ==
    [][\A ns \in IncludeCommandLines :
          (Reload(ns) /\ err' = "ok") =>
              LET own == FileDoc(files, configPath'.segs)
                  base == IncludedDoc(files, configPath'.segs)
              IN  /\ DOMAIN JSON' = DOMAIN own \cup DOMAIN base
                  /\ \A k \in DOMAIN JSON' :
                        JSON'[k] = IF k \in DOMAIN own THEN own[k] ELSE base[k]]_vars

\* both files have an object under "qtbase"; the document holds the including
\* file's object alone, and the option of that object was read from it
C12_Witness ==
    /\ ConfigLoaded
    /\ "qtbase" \in DOMAIN FileDoc(files, TestConfigPath)
    /\ "qtbase" \in DOMAIN IncludedDoc(files, TestConfigPath)
    /\ "build-type" \in DOMAIN IncludedDoc(files, TestConfigPath)["qtbase"].items
    /\ "qtbase" \in DOMAIN JSON
    /\ JSON["qtbase"] = PyDict([k \in {"build-tests"} |-> PyBool(FALSE)])
    /\ cached["qtbase/build-tests"] = PyBool(FALSE)

(***************************************************************************)
(* Files that cannot be loaded                                             *)
(***************************************************************************)
\* the keys written twice in one object of a text, at any nesting level
RECURSIVE DuplicatedKeys(_)
DuplicatedKeys(text) ==
    IF text.t # "object" THEN {}
    ELSE {text.pairs[i][1] : i \in {j \in DOMAIN text.pairs :
                                       \E h \in 1..(j - 1) : text.pairs[h][1] = text.pairs[j][1]}}
         \cup UNION {DuplicatedKeys(text.pairs[i][2]) : i \in DOMAIN text.pairs}

\* the last file of the chain, the one file of it that may fail to load:
\* its path and its text
LastOfChain(fs, p) == IncludeChain(fs, p)[Len(IncludeChain(fs, p))]
LastText(fs, p) == IF LastOfChain(fs, p) \in DOMAIN fs THEN fs[LastOfChain(fs, p)] ELSE Missing

\* C13 as stated: a file with the same key twice in one object makes the load
\* fail with a SyntaxError that reaches the caller of reload(), in every case.
C13_DuplicateKeyRaises ==
    [][\A ns \in IncludeCommandLines :
          (/\ configPath # None
           /\ Reload(ns)
           /\ DuplicatedKeys(LastText(files, configPath.segs)) # {}) =>
              /\ err' = "SyntaxError"
              /\ JSON' = EmptyDict]_vars

\* C13 amended: a file with the same key twice in one object, at any nesting
\* level and "#include" included, fails to parse with a SyntaxError that names
\* a key written twice.  The error reaches the caller of reload() and leaves
\* an empty document, unless stdin is a terminal and the user answers "y" to
\* "Continue?": then the load goes on with that file read as an empty object.
\* In neither case does a member of that file reach the document.
C13_DuplicateKeyRaisesOrSkipsFile ==
    [][\A ns \in IncludeCommandLines :
          (configPath # None /\ Reload(ns)) =>
              LET chain == IncludeChain(files, configPath.segs)
                  text == LastText(files, configPath.segs)
                  parsed == json_loads(text)
              IN  DuplicatedKeys(text) # {} =>
                    /\ IsRaise(parsed) /\ parsed.exc = "SyntaxError"
                    /\ parsed.key \in DuplicatedKeys(text)
                    /\ IF stdin
                       THEN /\ err' = "ok"
                            /\ JSON' = NearestWins(files, SubSeq(chain, 1, Len(chain) - 1))
                       ELSE /\ err' = "SyntaxError"
                            /\ JSON' = EmptyDict]_vars

\* the config file has a key twice in a nested object, and the load of it
\* ended with the SyntaxError
C13_Witness ==
    /\ Loaded = FALSE
    /\ ~stdin
    /\ configPath # None
    /\ err = "SyntaxError"
    /\ JSON = EmptyDict
    /\ DuplicatedKeys(files[TestConfigPath]) = {"build-tests"}

\* C14 as stated: an #include member that names a file that is not there
\* makes the load fail with FileNotFoundError, and no document is left that
\* lacks the included file's keys.
C14_MissingIncludeRaises ==
    [][\A ns \in IncludeCommandLines :
          (/\ configPath # None
           /\ Reload(ns)
           /\ Len(IncludeChain(files, configPath.segs)) > 1
           /\ LastText(files, configPath.segs) = Missing) =>
              /\ err' = "FileNotFoundError"
              /\ JSON' = EmptyDict]_vars

(***************************************************************************)
(* Validation                                                              *)
(***************************************************************************)
\* the "/"-joined paths of the entries of a document that are no objects
RECURSIVE LeafNames(_, _)
LeafNames(prefix, doc) ==
    UNION {IF IsDict(doc[k]) THEN LeafNames(prefix \o k \o "/", doc[k].items)
           ELSE {prefix \o k} : k \in DOMAIN doc}

\* the names a document may use: the registered names, the alternate names
\* and "#include"
KnownNames(reg) ==
    DOMAIN reg \cup ({AlternateName(n) : n \in DOMAIN reg} \ {""}) \cup {"#include"}

\* C15: a load whose files could be read completes, whatever keys the document
\* has: validation visits every entry, those of nested objects under their
\* "/"-joined paths, reports exactly the entries whose path is neither a
\* registered name nor an alternate name nor "#include", raises nothing and
\* leaves the document as it was loaded.  (An entry whose value is an object
\* is visited by descending into it: it is reported through its members.)
C15_ValidationOnlyReports ==
    [][\A ns \in IncludeCommandLines :
          LET r == _load_json_config_file(files, ns, configPath) IN
          (configPath # None /\ Reload(ns) /\ r.err = "ok") =>
              /\ err' = "ok"
              /\ JSON' = r.JSON
              /\ warnings' = LeafNames("", r.JSON) \ KnownNames(options)]_vars

\* a document was loaded that has "#include", an alternate name, a registered
\* option in a nested object and an unknown key in the same object: that key
\* alone was reported
C15_Witness ==
    /\ ConfigLoaded
    /\ {"#include", "bits", "qtbase"} \subseteq DOMAIN JSON
    /\ IsDict(JSON["qtbase"])
    /\ DOMAIN JSON["qtbase"].items = {"build-tests", "build-type"}
    /\ warnings = {"qtbase/build-type"}

(***************************************************************************)
(* Registration                                                            *)
(***************************************************************************)
\* C16: every descriptor of the registry is registered under its own name,
\* so no name is registered twice; registering a name that is registered
\* fails and leaves the registry, the descriptor registered first included,
\* as it was.
C16_NoDuplicateRegistration ==
    [][\A cls \in OptionClasses(loaderCls), name \in RegisteredNames :
          \A default \in DefaultsOf(name) :
              AddOption(cls, name, default) =>
                  /\ \A n \in DOMAIN options' : options'[n].name = n
                  /\ name \in DOMAIN options =>
                        (err' # "ok" /\ options' = options /\ options'[name] = options[name])]_vars

\* a registration was refused while the registry has options
C16_Witness ==
    /\ err \in {"ArgumentError", "AssertionError"}
    /\ DOMAIN options # {}
    /\ parsedArgs = None /\ cached = [n \in DOMAIN options |-> None]

(***************************************************************************)
(* Coercion                                                                *)
(***************************************************************************)
\* the raw value loadOption hands to _convertType for option n
RawValue(n) == FirstSet(<<OnCmdLine(n), InJson(n), OwnDefault(n)>>)

\* C17 as stated: coercing a coerced value again, with the same type, gives
\* an equal value, for every value type.
C17_CoercionIdempotent ==
    \A n \in DOMAIN options :
        cached[n] # None => Coerced(n, cached[n]) = cached[n]

\* the texts that are numbers, and the texts that are booleans
IsNumberText(v) == \E p \in Numerals : p[1] = Text(v)
IsBooleanText(v) == Text(v) \in {"true", "false", "True", "False"}

\* C18 as stated: when the raw value of an int option is a str that is no
\* number, or that of a bool option a str that is no boolean, the read ends in
\* the fatal error and the option gets no value.
C18_InvalidTextRejected ==
    [][\A n \in DOMAIN options :
          (/\ Loaded
           /\ Read(n)
           /\ RawValue(n).t = "str"
           /\ \/ options[n].valueType = "int" /\ ~IsNumberText(RawValue(n))
              \/ options[n].valueType = "bool" /\ ~IsBooleanText(RawValue(n))) =>
              (err' = "SystemExit" /\ cached'[n] = None)]_vars

\* C19 as stated: whenever the conversion of the raw value fails, whatever the
\* value type, the read ends in the fatal error (fatalError and sys.exit()):
\* no other exception leaves loadOption.
C19_EveryFailureFatal ==
    [][\A n \in DOMAIN options :
          (Loaded /\ Read(n) /\ IsRaise(Coerced(n, RawValue(n)))) =>
              (err' = "SystemExit" /\ cached'[n] = None)]_vars

(***************************************************************************)
(* The config file of a command line                                       *)
(***************************************************************************)
\* the document the file at path p loads to (empty when it is not there)
DocumentAt(fs, p) == NearestWins(fs, IncludeChain(fs, p))

\* C20 as stated: every load() and reload() that ends well has read the
\* document from the path its own command line gives with --config-file (the
\* default path without the flag), so the document in memory is always that
\* of the last command line's path.
C20_ConfigFileOfLastCommandLine ==
    [][\A ns \in CommandLines[options] :
          (/\ loaderCls = "JsonAndCommandLineConfigLoader"
           /\ Load(ns) \/ Reload(ns)
           /\ err' = "ok") =>
              /\ configPath' = Absolute(ns.config_file)
              /\ JSON' = DocumentAt(files, Absolute(ns.config_file).segs)]_vars

(***************************************************************************)
(* Options of a target in the document: "group/key" or nested objects      *)
(***************************************************************************)
\* the options whose name has a "/"
GroupOptions(reg) == {n \in DOMAIN reg : jsonPath(n) # <<>>}

\* an object with one member
OneMember(k, v) == [j \in {k} |-> v]

\* what a document can hold for the option of a target: the flat key, the
\* nested object, both, an object without the key, or a value under the name
\* of the group that is no object (null, a number, a string)
LookupDocuments(reg) ==
    {EmptyDict} \cup UNION {
        LET group == jsonPath(n)[1]
            key == jsonKey(n)
        IN  {OneMember(n, v) : v \in JsonValues(reg[n])}
            \cup {OneMember(group, PyDict(OneMember(key, v))) : v \in JsonValues(reg[n])}
            \cup {[k \in {n, group} |->
                     IF k = n THEN v ELSE PyDict(OneMember(key, w))] :
                        v \in JsonValues(reg[n]), w \in JsonValues(reg[n])}
            \cup {OneMember(group, v) :
                     v \in {PyDict(EmptyDict), PyDict(OneMember("build-type", Word("Debug"))),
                            None, PyInt(1), Word("Debug")}}
        : n \in GroupOptions(reg)}

LookupFileSystems(reg) ==
    {[p \in Paths |-> IF p = TestConfigPath THEN PyDict(doc) ELSE Missing] :
        doc \in LookupDocuments(reg)}

InitLookup ==
    /\ loaderCls = "JsonAndCommandLineConfigLoader"
    /\ options = BuildTestsOptions(loaderCls)
    /\ parser = ParserOf(loaderCls, options)
    /\ parsedArgs = None
    /\ JSON = EmptyDict
    /\ configPath = None
    /\ files \in LookupFileSystems(options)
    /\ cached = [n \in DOMAIN options |-> None]
    /\ resolutions = [n \in DOMAIN options |-> 0]
    /\ err = "ok"
    /\ stdin = FALSE
    /\ warnings = {}
    /\ jenkins = Unassigned

\* the command lines of the lookup tests: they name the test's config file
LookupCommandLines == {ns \in CommandLines[options] : ns.config_file.segs = TestConfigPath}

NextLookup ==
    \/ \E ns \in LookupCommandLines : Load(ns)
    \/ \E name \in DOMAIN options : Read(name)

SpecLookup == InitLookup /\ [][NextLookup]_vars

\* the document with the entry of option n written the other way: the flat
\* key as a nested object, the nested object as the flat key
OtherForm(doc, n) ==
    LET group == jsonPath(n)[1]
        key == jsonKey(n)
    IN  IF n \in DOMAIN doc
        THEN [k \in (DOMAIN doc \ {n}) \cup {group} |->
                 IF k = group THEN PyDict(OneMember(key, doc[n])) ELSE doc[k]]
        ELSE IF group \in DOMAIN doc /\ IsDict(doc[group]) /\ key \in DOMAIN doc[group].items
        THEN [k \in (DOMAIN doc \ {group}) \cup {n} |->
                 IF k = n THEN doc[group].items[key] ELSE doc[k]]
        ELSE doc

\* the document has a path to option n: the flat key, or the object of the
\* group with the key in it
HasPath(doc, n) ==
    \/ n \in DOMAIN doc
    \/ /\ jsonPath(n)[1] \in DOMAIN doc
       /\ IsDict(doc[jsonPath(n)[1]])
       /\ jsonKey(n) \in DOMAIN doc[jsonPath(n)[1]].items

\* C21 as stated: for every option whose name has a "/", the lookup returns
\* the same value for the flat key "group/key" and for the nested objects, and
\* it returns None, raising nothing, whenever the document has no such path.
C21_LookupFlatOrNested ==
    \A n \in GroupOptions(options) :
        /\ (n \in DOMAIN JSON /\ jsonPath(n)[1] \notin DOMAIN JSON) =>
              _lookupKeyInJson([Loader EXCEPT !.JSON = OtherForm(JSON, n)], n)
                  = _lookupKeyInJson(Loader, n)
        /\ ~HasPath(JSON, n) => _lookupKeyInJson(Loader, n) = None

(***************************************************************************)
(* The command line: argparse as load() uses it                            *)
(***************************************************************************)
\* the actions the add_argument calls of a descriptor register: the option
\* string, the destination and the kind of action; a bool option is
\* registered with action="store_true", its negation with "store_false" and
\* dest=action.dest
ActionsOf(d) ==
    IF d.cls = "DefaultValueOnlyConfigOption" THEN {}
    ELSE {[option_string |-> s, dest |-> d.dest,
           action |-> IF d.valueType = "bool" THEN "store_true" ELSE "store"] :
              s \in OptionStrings(d.name)}
         \cup (IF d.valueType = "bool"
               THEN {[option_string |-> "--" \o NegatedName(d.name), dest |-> d.dest,
                      action |-> "store_false"]}
               ELSE {})

\* the actions of a parser: those of -h/--help and of the loader's __init__,
\* then those of the registered options
ParserActions(lcls, reg) ==
    {[option_string |-> s, dest |-> "help", action |-> "help"] :
        s \in InitialFlags(lcls) \ {"--config-file"}}
    \cup (IF lcls = "JsonAndCommandLineConfigLoader"
          THEN {[option_string |-> "--config-file", dest |-> "config_file", action |-> "store"]}
          ELSE {})
    \cup UNION {ActionsOf(reg[n]) : n \in DOMAIN reg}

\* the targets given to finalizeOptions
AvailableTargets == {"qtbase", "gdb"}

\* an argument that starts with "-" and is no option string of the parser
UnknownFlags == {"--bogus"}

\* the arguments that start with "-"
OptionLike(acts) == {a.option_string : a \in acts} \cup UnknownFlags

\* the arguments from position i up to the next one that starts with "-"
RECURSIVE WordsFrom(_, _, _)
WordsFrom(acts, argv, i) ==
    IF i > Len(argv) \/ argv[i] \in OptionLike(acts) THEN <<>>
    ELSE <<argv[i]>> \o WordsFrom(acts, argv, i + 1)

\* ArgumentParser._parse_known_args from position i.  An option string that
\* is not known goes to the extras.  A "store" action takes the next argument,
\* which must not start with "-".  The actions of a bool option are in a
\* mutually exclusive group.  The positional "targets" (nargs="*") takes the
\* first run of arguments that do not start with "-", every one of them checked
\* against choices; later runs go to the extras.  error() ends in sys.exit(2).
RECURSIVE _parse_known_args(_, _, _, _, _)
_parse_known_args(acts, avail, argv, i, st) ==
    IF st.err # "ok" \/ i > Len(argv) THEN st
    ELSE LET tok == argv[i] IN
         IF tok \in OptionLike(acts)
         THEN IF \A a \in acts : a.option_string # tok
              THEN _parse_known_args(acts, avail, argv, i + 1,
                                     [st EXCEPT !.extras = Append(@, tok)])
              ELSE LET a == CHOOSE b \in acts : b.option_string = tok IN
                   CASE a.action = "help" -> [st EXCEPT !.err = "SystemExit"]
                     [] a.action = "store" ->
                          IF i + 1 <= Len(argv) /\ argv[i + 1] \notin OptionLike(acts)
                          THEN _parse_known_args(acts, avail, argv, i + 2,
                                   [st EXCEPT !.opts[a.dest] = PyStr(FALSE, <<argv[i + 1]>>)])
                          ELSE [st EXCEPT !.err = "SystemExit"]
                     [] OTHER ->
                          LET value == PyBool(a.action = "store_true") IN
                          IF st.opts[a.dest] \notin {None, value}
                          THEN [st EXCEPT !.err = "SystemExit"]
                          ELSE _parse_known_args(acts, avail, argv, i + 1,
                                                 [st EXCEPT !.opts[a.dest] = value])
         ELSE LET run == WordsFrom(acts, argv, i) IN
              IF st.targets = None
              THEN IF \E j \in DOMAIN run : run[j] \notin avail
                   THEN [st EXCEPT !.err = "SystemExit"]
                   ELSE _parse_known_args(acts, avail, argv, i + Len(run),
                                          [st EXCEPT !.targets = PyList(run)])
              ELSE _parse_known_args(acts, avail, argv, i + Len(run),
                                     [st EXCEPT !.extras = @ \o run])

\* ArgumentParser.parse_known_args(argv): the namespace, the arguments left
\* over, and "ok" or the exception it ends with.  Every destination starts as
\* None (the default the descriptors set), --config-file as its default.
parse_known_args(lcls, reg, avail, argv) ==
    LET acts == ParserActions(lcls, reg)
        dests == {a.dest : a \in {b \in acts : b.action # "help"}}
        st == _parse_known_args(acts, avail, argv, 1,
                  [opts |-> [x \in dests |-> None], targets |-> None, extras |-> <<>>,
                   err |-> "ok"])
    IN  [ns |-> [opts |-> [x \in dests \ {"config_file"} |-> st.opts[x]],
                 config_file |-> IF st.opts["config_file"] = None
                                 THEN PyStr(TRUE, DefaultConfigPath)
                                 ELSE st.opts["config_file"],
                 targets |-> IF st.targets = None THEN <<>> ELSE st.targets.items],
         extras |-> st.extras,
         err |-> st.err]

\* the options of the command-line tests: a bool option of a target, a bool
\* option and a str option that are read from the command line only
ParseOptions ==
    [n \in {"qtbase/build-tests", "without-sdk", "sdk-archive"} |->
        CASE n = "qtbase/build-tests" ->
                ConfigOption("JsonAndCommandLineConfigOption", n, PyBool(FALSE), "bool",
                             NoFallback)
          [] n = "without-sdk" ->
                ConfigOption("CommandLineConfigOption", n, PyBool(FALSE), "bool", NoFallback)
          [] OTHER ->
                ConfigOption("CommandLineConfigOption", n, None, "str", NoFallback)]

\* bound on the length of a command line
MaxArgs == 2

\* the arguments the command lines are written from
ArgvTokens ==
    {"--qtbase/build-tests", "--qtbase/no-build-tests", "--no-without-sdk", "--sdk-archive",
     "--bogus", "qtbase", "bogus"}

CommandLineArgs == UNION {[1..n -> ArgvTokens] : n \in 0..MaxArgs}

InitParse ==
    /\ loaderCls = "JsonAndCommandLineConfigLoader"
    /\ options = ParseOptions
    /\ parser = ParserOf(loaderCls, options)
    /\ parsedArgs = None
    /\ JSON = EmptyDict
    /\ configPath = None
    /\ files = [p \in Paths |-> Missing]
    /\ cached = [n \in DOMAIN options |-> None]
    /\ resolutions = [n \in DOMAIN options |-> 0]
    /\ err = "ok"
    /\ stdin = FALSE
    /\ warnings = {}
    /\ jenkins = Unassigned

\* self._parser.parse_known_args() with sys.argv[1:] = argv, for the parser of
\* the command-line tests: the parse of every command line, computed once
ParseTable ==
    [argv \in CommandLineArgs |->
        parse_known_args("JsonAndCommandLineConfigLoader", ParseOptions, AvailableTargets, argv)]

ParseResult(argv) == ParseTable[argv]

\* load() with sys.argv[1:] = argv: a command line argparse rejects ends in
\* sys.exit(2) before anything is assigned; the arguments left over are added
\* to the targets
LoadArgv(argv) ==
    \E r \in {ParseResult(argv)} :
        IF r.err # "ok"
        THEN /\ err' = r.err
             /\ UNCHANGED <<jenkins, loaderCls, options, parser, parsedArgs, JSON, configPath, files,
                            cached, resolutions, stdin, warnings>>
        ELSE Load([r.ns EXCEPT !.targets = @ \o r.extras])

NextParse ==
    \/ \E argv \in CommandLineArgs : LoadArgv(argv)
    \/ \E name \in DOMAIN options : Read(name)

SpecParse == InitParse /\ [][NextParse]_vars

\* the parts of a name joined again, a "/" after every part
RECURSIVE JoinParts(_)
JoinParts(parts) == IF parts = <<>> THEN "" ELSE Head(parts) \o "/" \o JoinParts(Tail(parts))

\* the bool options that have flags
BoolFlagOptions ==
    {n \in DOMAIN options : /\ options[n].cls # "DefaultValueOnlyConfigOption"
                            /\ options[n].valueType = "bool"}

Given(argv, flag) == \E i \in DOMAIN argv : argv[i] = flag

\* the command lines a successful load() can have parsed to the namespace
\* the loader holds
ParsedFrom ==
    {argv \in CommandLineArgs :
        \E r \in {ParseResult(argv)} :
            /\ r.err = "ok"
            /\ parsedArgs.opts = r.ns.opts
            /\ parsedArgs.targets = r.ns.targets \o r.extras}

\* C22: every bool option with flags has exactly one negation flag, named by
\* "no-" put in front of the last "/"-separated part of the name; it writes
\* the destination of the positive flag, and after load() the destination is
\* True when the positive flag was given, False when the negated one was, and
\* None when neither was.
C22_NegationFlag ==
    \E acts \in {ParserActions(loaderCls, options)} :
    \E given \in {IF Loaded THEN ParsedFrom ELSE {}} :
        /\ Loaded => given # {}
        /\ \A n \in BoolFlagOptions :
              \E negated \in {"--" \o JoinParts(jsonPath(n)) \o "no-" \o jsonKey(n)} :
                  /\ {a \in acts : a.dest = options[n].dest /\ a.action = "store_false"}
                        = {[option_string |-> negated, dest |-> options[n].dest,
                            action |-> "store_false"]}
                  /\ negated \in parser
                  /\ \A a \in acts :
                        a.option_string = "--" \o n => a.dest = options[n].dest
                  /\ \A argv \in given :
                        parsedArgs.opts[options[n].dest] =
                            IF Given(argv, "--" \o n) THEN PyBool(TRUE)
                            ELSE IF Given(argv, negated) THEN PyBool(FALSE)
                            ELSE None

\* the negated flag of the target's option was parsed and the other bool
\* option, left out, was read as its default from a destination that is None
C22_Witness ==
    /\ Loaded
    /\ options = ParseOptions
    /\ parsedArgs.opts["qtbase/build_tests"] = PyBool(FALSE)
    /\ parsedArgs.opts["without_sdk"] = None
    /\ cached["qtbase/build-tests"] = PyBool(FALSE)
    /\ cached["without-sdk"] = PyBool(FALSE)

\* C25 as stated: after load() every entry of loader.targets is one of the
\* targets given to finalizeOptions: an argument that is neither a target nor
\* an option of the parser is rejected and never gets into the targets.
C25_TargetsAreAvailable ==
    Loaded => \A i \in DOMAIN parsedArgs.targets : parsedArgs.targets[i] \in AvailableTargets

(***************************************************************************)
(* Chains of fallback options                                              *)
(***************************************************************************)
\* C23 as stated: when option a falls back to b and b falls back to c, and
\* neither a nor b is set on the command line or in the document while c is,
\* then a resolves to the value given for c, and so does b.
C23_FallbackChain ==
    Loaded => \A a \in Variants :
        LET b == options[a].fallback IN
        b \in Variants =>
            LET c == options[b].fallback IN
            (~IsSet(a) /\ ~IsSet(b) /\ IsSet(c)) =>
                /\ Value(a) = Coerced(a, GivenValue(c))
                /\ Value(b) = Coerced(b, GivenValue(c))

(***************************************************************************)
(* The life cycle: reset(), reload() and a second load()                   *)
(***************************************************************************)
\* the loader as the descriptors see it after the step
LoaderAfter == [options |-> options', parsedArgs |-> parsedArgs', JSON |-> JSON',
                cached |-> cached']

\* C24 as stated, for the loader that reads the command line and the config
\* file: reset() returns the loader to the unloaded state: every cached value
\* is cleared, the document in memory is empty, and no option can be read
\* until load() has parsed a command line again.
C24_ResetUnloads ==
    [][(loaderCls = "JsonAndCommandLineConfigLoader" /\ Reset) =>
          /\ \A n \in DOMAIN options : cached'[n] = None
          /\ JSON' = EmptyDict
          /\ \A n \in DOMAIN options : IsRaise(Get(LoaderAfter, n))]_vars

(***************************************************************************)
(* Options that are read from the command line only                        *)
(***************************************************************************)
\* a bool option registered with addCommandLineOnlyBoolOption, and the option
\* of a target that falls back to it
CmdLineOnlyOptions ==
    [n \in {"qtbase/build-tests", "qtbase-mips/build-tests"} |->
        IF n = "qtbase/build-tests"
        THEN ConfigOption("CommandLineConfigOption", n, PyBool(FALSE), "bool", NoFallback)
        ELSE ConfigOption("JsonAndCommandLineConfigOption", n, PyBool(FALSE), "bool",
                          "qtbase/build-tests")]

CmdLineOnlyRegistries == {JenkinsOptions, CmdLineOnlyOptions}

\* the command lines each of these registries' parser accepts
CmdLineOnlyCommandLines == [reg \in CmdLineOnlyRegistries |-> Namespaces(reg)]

InitCmdLineOnly ==
    /\ loaderCls = "JsonAndCommandLineConfigLoader"
    /\ options \in CmdLineOnlyRegistries
    /\ parser = ParserOf(loaderCls, options)
    /\ parsedArgs = None
    /\ JSON = EmptyDict
    /\ configPath = None
    /\ files \in FileSystems(options) \cup LookupFileSystems(options)
    /\ cached = [n \in DOMAIN options |-> None]
    /\ resolutions = [n \in DOMAIN options |-> 0]
    /\ err = "ok"
    /\ stdin = FALSE
    /\ warnings = {}
    /\ jenkins = Unassigned

\* the runs of the test harness: every parse is a reload()
NextCmdLineOnly ==
    \/ SetConfigPath(TestConfigPath)
    \/ \E ns \in CmdLineOnlyCommandLines[options] : Reload(ns)
    \/ \E name \in DOMAIN options : Read(name)

SpecCmdLineOnly == InitCmdLineOnly /\ [][NextCmdLineOnly]_vars

\* the options registered as command-line-only
CmdLineOnly == {n \in DOMAIN options : options[n].cls = "CommandLineConfigOption"}

\* the value option n resolves to in configuration l, nothing cached
Resolve(l, n) == loadOption([l EXCEPT !.cached = Uncached], options[n])

\* C26: a command-line-only option resolves to the value of its flag when the
\* flag was given and to its default otherwise, and a document entry with its
\* name changes neither what it resolves to nor what an option that falls back
\* to it resolves to.
C26_CmdLineOnlyIgnoresJson ==
    Loaded => \A n \in CmdLineOnly :
        /\ Resolve(Loader, n) = Coerced(n, IF OnCmdLine(n) # None THEN OnCmdLine(n)
                                           ELSE OwnDefault(n))
        /\ cached[n] # None => cached[n] = Resolve(Loader, n)
        /\ \A v \in JsonValues(options[n]) \cup {None} :
              \A m \in {n} \cup {x \in DOMAIN options : options[x].fallback = n} :
                  Resolve(WithJson(n, v), m) = Resolve(Loader, m)

\* the document sets a command-line-only option that has no flag on the
\* command line; it was read as its default, and so was the unset option that
\* falls back to it
C26_Witness ==
    /\ Loaded
    /\ \E n \in CmdLineOnly : \E m \in DOMAIN options :
          /\ options[m].fallback = n
          /\ n \in DOMAIN JSON /\ JSON[n] = PyBool(TRUE)
          /\ OnCmdLine(n) = None /\ ~IsSet(m)
          /\ cached[n] = PyBool(FALSE)
          /\ cached[m] = PyBool(FALSE)

(***************************************************************************)
(* JenkinsConfig.load(): workspace, cpu and --without-sdk                  *)
(***************************************************************************)
\* choices of the cpu option: the words --cpu accepts
CpuChoices ==
    {"cheri128", "cheri256", "mips", "hybrid-cheri128", "hybrid-cheri256", "native", "x86",
     "amd64"}

\* os.getenv("CPU"), the default of the cpu option: unset, or any word
\* (argparse does not hold a default against the choices)
CpuEnvironment == {None} \cup {Word(w) : w \in {"x86_64", "host", "sparc"}}

\* the one directory of the file system
WorkspaceDir == <<"ws">>
Directories == {WorkspaceDir}

\* os.getenv("WORKSPACE"), the default of the workspace option
WorkspaceEnvironment == {None, PyStr(TRUE, WorkspaceDir)}

\* JenkinsConfig.__init__: the options load() reads to choose the target
JenkinsConfigOptions(cpuEnv, wsEnv) ==
    [n \in {"cpu", "workspace", "without-sdk"} |->
        CASE n = "cpu"       -> ConfigOption("CommandLineConfigOption", n, cpuEnv, "str", NoFallback)
          [] n = "workspace" -> ConfigOption("CommandLineConfigOption", n, wsEnv, "Path", NoFallback)
          [] OTHER           -> ConfigOption("CommandLineConfigOption", n, PyBool(FALSE), "bool",
                                             NoFallback)]

JenkinsRegistries ==
    {JenkinsConfigOptions(c, w) : c \in CpuEnvironment, w \in WorkspaceEnvironment}

\* the namespaces the Jenkins parser can return
JenkinsCommandLines ==
    {[opts |-> [cpu |-> c, workspace |-> w, without_sdk |-> s],
      config_file |-> PyStr(TRUE, DefaultConfigPath)] :
        c \in {None} \cup {Word(x) : x \in CpuChoices},
        w \in {None, PyStr(TRUE, <<"nowhere">>)},
        s \in {None, PyBool(TRUE), PyBool(FALSE)}}

\* utils.fatalError: the message is printed and the run ends
fatalError == "fatalError"

\* a member of the CrossCompileTarget enum
CrossCompileTarget(member) == [t |-> "target", member |-> member]

\* an if-chain that takes the hybrid cpus for CHERI
CpuTarget_HybridIsCheri(cpu) ==
    CASE cpu \in {Word("cheri128"), Word("hybrid-cheri128")} ->
             [cheriBits |-> PyInt(128), crossCompileTarget |-> CrossCompileTarget("CHERI")]
      [] cpu \in {Word("cheri256"), Word("hybrid-cheri256")} ->
             [cheriBits |-> PyInt(256), crossCompileTarget |-> CrossCompileTarget("CHERI")]
      [] cpu = Word("mips") ->
             [cheriBits |-> PyInt(9998), crossCompileTarget |-> CrossCompileTarget("MIPS")]
      [] cpu \in {Word(w) : w \in {"x86", "x86_64", "amd64", "host", "native"}} ->
             [cheriBits |-> PyInt(9999), crossCompileTarget |-> CrossCompileTarget("NATIVE")]
      [] OTHER -> None

\* the if-chain over self.cpu: the attributes it assigns, None where it ends
\* in fatalError
CpuTarget(cpu) ==
    CASE cpu = Word("cheri128") ->
             [cheriBits |-> PyInt(128), crossCompileTarget |-> CrossCompileTarget("CHERI")]
      [] cpu = Word("cheri256") ->
             [cheriBits |-> PyInt(256), crossCompileTarget |-> CrossCompileTarget("CHERI")]
      [] cpu \in {Word(w) : w \in {"mips", "hybrid-cheri128", "hybrid-cheri256"}} ->
             [cheriBits |-> PyInt(9998), crossCompileTarget |-> CrossCompileTarget("MIPS")]
      [] cpu \in {Word(w) : w \in {"x86", "x86_64", "amd64", "host", "native"}} ->
             [cheriBits |-> PyInt(9999), crossCompileTarget |-> CrossCompileTarget("NATIVE")]
      [] OTHER -> None

\* JenkinsConfig.load after super().load(): l is the loaded loader, j the
\* attributes so far.  reads are the options whose descriptor was read.
load_Attributes(l, j) ==
    LET workspace == Get(l, "workspace")
        cpu == Get(l, "cpu")
        without_sdk == Get(l, "without-sdk")
        target == CpuTarget(cpu)
    IN  IF IsRaise(workspace)
        THEN [jenkins |-> j, reads |-> {}, err |-> workspace.exc]
        ELSE IF workspace = None \/ workspace.segs \notin Directories
        THEN [jenkins |-> j, reads |-> {"workspace"}, err |-> fatalError]
        ELSE IF IsRaise(cpu)
        THEN [jenkins |-> j, reads |-> {"workspace"}, err |-> cpu.exc]
        ELSE IF target = None
        THEN [jenkins |-> [j EXCEPT !.crossCompileTarget = cpu],
              reads |-> {"workspace", "cpu"}, err |-> fatalError]
        ELSE IF IsRaise(without_sdk)
        THEN [jenkins |-> target, reads |-> {"workspace", "cpu"}, err |-> without_sdk.exc]
        ELSE IF ToBool(without_sdk).b /\ target.crossCompileTarget # CrossCompileTarget("NATIVE")
        THEN [jenkins |-> target, reads |-> {"workspace", "cpu", "without-sdk"},
              err |-> fatalError]
        ELSE [jenkins |-> target, reads |-> {"workspace", "cpu", "without-sdk"}, err |-> "ok"]

\* JenkinsConfig.load(): the loader's load(), then the attributes
JenkinsConfig_load(ns) ==
    /\ loaderCls = "JsonAndCommandLineConfigLoader"
    /\ \E r \in {_load_json_config_file(files, ns, configPath)} :
        /\ parsedArgs' = ns
        /\ configPath' = r.configPath
        /\ IF r.err # "ok"
           THEN /\ JSON' = r.JSON
                /\ err' = r.err
                /\ UNCHANGED <<warnings, cached, resolutions, jenkins>>
           ELSE \E v \in {_validateConfigFile(options, r.JSON)} :
                \E l \in {[options |-> options, parsedArgs |-> ns, JSON |-> v.JSON,
                           cached |-> cached]} :
                \E c \in {load_Attributes(l, jenkins)} :
                \E loads \in {{n \in c.reads : cached[n] = None}} :
                    /\ \A n \in loads : resolutions[n] < MaxResolutions
                    /\ JSON' = v.JSON
                    /\ warnings' = v.warnings
                    /\ cached' = [n \in DOMAIN options |->
                                     IF n \in loads THEN loadOption(l, options[n]) ELSE cached[n]]
                    /\ resolutions' = [n \in DOMAIN options |->
                                          IF n \in loads THEN resolutions[n] + 1
                                          ELSE resolutions[n]]
                    /\ jenkins' = c.jenkins
                    /\ err' = c.err
    /\ UNCHANGED <<loaderCls, options, parser, files, stdin>>

InitJenkins ==
    /\ loaderCls = "JsonAndCommandLineConfigLoader"
    /\ options \in JenkinsRegistries
    /\ parser = ParserOf(loaderCls, options)
    /\ parsedArgs = None
    /\ JSON = EmptyDict
    /\ configPath = None
    /\ files = [p \in Paths |-> Missing]
    /\ cached = [n \in DOMAIN options |-> None]
    /\ resolutions = [n \in DOMAIN options |-> 0]
    /\ err = "ok"
    /\ stdin = FALSE
    /\ warnings = {}
    /\ jenkins = Unassigned

\* the runs of the Jenkins script: load() is what reads the three options
NextJenkins == \E ns \in JenkinsCommandLines : JenkinsConfig_load(ns)

SpecJenkins == InitJenkins /\ [][NextJenkins]_vars

\* the command line ns reaches the if-chain: the workspace is a directory
WorkspaceValid(ns) ==
    \E ws \in {Get([Loader EXCEPT !.parsedArgs = ns], "workspace")} :
        ws # None /\ ~IsRaise(ws) /\ ws.segs \in Directories

\* the value self.cpu and self.without_sdk have in load() on command line ns
CpuOf(ns) == Get([Loader EXCEPT !.parsedArgs = ns], "cpu")
WithoutSdkOf(ns) == ToBool(Get([Loader EXCEPT !.parsedArgs = ns], "without-sdk")).b

\* C27: JenkinsConfig.load maps each cpu the --cpu choices accept to exactly
\* one (cheriBits, crossCompileTarget) pair: cheri128 to (128, CHERI),
\* cheri256 to (256, CHERI), mips and the hybrid cpus to (9998, MIPS), native,
\* x86 and amd64 to (9999, NATIVE); an unset or any other cpu is a fatal
\* error, and so is --without-sdk with a target other than NATIVE
C27_CpuMapping ==
    [][\A ns \in {parsedArgs'} \cap JenkinsCommandLines :
          (JenkinsConfig_load(ns) /\ WorkspaceValid(ns)) =>
              \E cpu \in {CpuOf(ns)} :
              \E pair \in {CASE cpu = Word("cheri128") -> <<128, "CHERI">>
                             [] cpu = Word("cheri256") -> <<256, "CHERI">>
                             [] cpu \in {Word("mips"), Word("hybrid-cheri128"),
                                         Word("hybrid-cheri256")} -> <<9998, "MIPS">>
                             [] cpu \in {Word("native"), Word("x86"), Word("amd64")} ->
                                    <<9999, "NATIVE">>
                             [] OTHER -> <<0, "fatal">>} :
                  IF pair[2] = "fatal" THEN err' = fatalError
                  ELSE /\ jenkins' = [cheriBits |-> PyInt(pair[1]),
                                      crossCompileTarget |-> CrossCompileTarget(pair[2])]
                       /\ err' = IF WithoutSdkOf(ns) /\ pair[2] # "NATIVE" THEN fatalError
                                 ELSE "ok"]_vars

\* C27, amended: with a workspace that is a directory, load maps cheri128 to
\* (128, CHERI), cheri256 to (256, CHERI), mips and the hybrid cpus to
\* (9998, MIPS), and native, x86, amd64 and also x86_64 and host (words only
\* $CPU can supply) to (9999, NATIVE); an unset or any other cpu is a fatal
\* error, and so is --without-sdk with a target other than NATIVE
C27_CpuMappingWithEnvironment ==
    [][\A ns \in {parsedArgs'} \cap JenkinsCommandLines :
          (JenkinsConfig_load(ns) /\ WorkspaceValid(ns)) =>
              \E cpu \in {CpuOf(ns)} :
              \E pair \in {CASE cpu = Word("cheri128") -> <<128, "CHERI">>
                             [] cpu = Word("cheri256") -> <<256, "CHERI">>
                             [] cpu \in {Word("mips"), Word("hybrid-cheri128"),
                                         Word("hybrid-cheri256")} -> <<9998, "MIPS">>
                             [] cpu \in {Word("native"), Word("x86"), Word("amd64"),
                                         Word("x86_64"), Word("host")} -> <<9999, "NATIVE">>
                             [] OTHER -> <<0, "fatal">>} :
                  IF pair[2] = "fatal" THEN err' = fatalError
                  ELSE /\ jenkins' = [cheriBits |-> PyInt(pair[1]),
                                      crossCompileTarget |-> CrossCompileTarget(pair[2])]
                       /\ err' = IF WithoutSdkOf(ns) /\ pair[2] # "NATIVE" THEN fatalError
                                 ELSE "ok"]_vars

\* a load that took the cpu "host" from $CPU and chose NATIVE
C27_Witness ==
    /\ Loaded
    /\ parsedArgs.opts.cpu = None
    /\ cached["cpu"] = Word("host")
    /\ jenkins = [cheriBits |-> PyInt(9999), crossCompileTarget |-> CrossCompileTarget("NATIVE")]
    /\ err = "ok"

(***************************************************************************)
(* Include chains that come back to a file                                 *)
(***************************************************************************)
\* the files of the directory besides the config file
ChainFiles == {"base.json", "loop.json"}

\* what a file can name in its "#include" member ("" for no such member)
IncludeTargets == {"", "config.json"} \cup ChainFiles

\* a file with one key of its own and, if target is a name, an "#include"
ChainText(name, target) ==
    JsonObject(<<<<IF name = "config.json" THEN "cheri-bits" ELSE "foo",
                   IF name = "config.json" THEN PyInt(128) ELSE PyStr(FALSE, <<name>>)>>>>
               \o IF target = "" THEN <<>>
                  ELSE <<<<"#include", PyStr(FALSE, <<target>>)>>>>)

\* the directory: every file includes nothing, itself or another file
ChainFileSystems ==
    {[p \in Paths \cup {ConfigDir \o <<name>> : name \in ChainFiles} |->
        IF p = TestConfigPath THEN ChainText("config.json", inc["config.json"])
        ELSE IF p \in Paths THEN Missing
        ELSE ChainText(p[2], inc[p[2]])] :
     inc \in [{"config.json"} \cup ChainFiles -> IncludeTargets]}

InitChain ==
    /\ loaderCls = "JsonAndCommandLineConfigLoader"
    /\ options = IncludeOptions
    /\ parser = ParserOf(loaderCls, options)
    /\ parsedArgs = None
    /\ JSON = EmptyDict
    /\ configPath = None
    /\ files \in ChainFileSystems
    /\ cached = [n \in DOMAIN options |-> None]
    /\ resolutions = [n \in DOMAIN options |-> 0]
    /\ err = "ok"
    /\ stdin \in BOOLEAN
    /\ warnings = {}
    /\ jenkins = Unassigned

NextChain ==
    \/ SetConfigPath(TestConfigPath)
    \/ \E ns \in IncludeCommandLines : Reload(ns)
    \/ \E name \in DOMAIN options : Read(name)

SpecChain == InitChain /\ [][NextChain]_vars

\* the files __load_json_with_includes reads, in order, from the call at depth
RECURSIVE FilesRead(_, _, _)
FilesRead(fs, config_path, depth) ==
    IF depth >= RecursionLimit THEN <<>>
    ELSE <<config_path>> \o
         (IF IncludeOf(fs, config_path) = <<>> THEN <<>>
          ELSE FilesRead(fs, IncludeOf(fs, config_path), depth + 1))

\* the file n includes further along the chain from p (<<>> if the chain
\* has ended by then)
RECURSIVE IncludeWalk(_, _, _)
IncludeWalk(fs, p, n) ==
    IF n = 0 \/ p = <<>> THEN p ELSE IncludeWalk(fs, IncludeOf(fs, p), n - 1)

\* the chain from p comes back to one of its files: it is longer than the
\* number of files there are
IncludesItself(fs, p) == IncludeWalk(fs, p, Cardinality(DOMAIN fs)) # <<>>

\* C28: loading a document reads each file of the include chain at most once,
\* and a config file whose chain comes back to a file already on it ends in an
\* error
C28_IncludeTerminates ==
    [][\A ns \in IncludeCommandLines :
          (Reload(ns) /\ parsedArgs' = ns /\ configPath' = PyPath(TRUE, TestConfigPath)) =>
              \E reads \in {FilesRead(files, TestConfigPath, 0)} :
                  /\ \A i, j \in DOMAIN reads : reads[i] = reads[j] => i = j
                  /\ IncludesItself(files, TestConfigPath) => err' # "ok"]_vars

(***************************************************************************)
(* A reload() that fails: config files that cannot be loaded               *)
(***************************************************************************)
\* the config files the harness points the loader at, one after the other
FailingFiles ==
    [name \in {"good.json", "malformed.json", "duplicate.json", "bad-include.json",
               "includes-malformed.json"} |->
        CASE name = "good.json" ->
                JsonObject(<<<<"cheri-bits", PyInt(128)>>,
                             <<"source-root", PyStr(TRUE, <<"override", "twice">>)>>>>)
          [] name = "malformed.json" -> Malformed
          [] name = "duplicate.json" -> CommonFiles["duplicate.json"]
          [] name = "bad-include.json" ->
                JsonObject(<<<<"cheri-bits", PyInt(128)>>,
                             <<"#include", PyStr(FALSE, <<"bad-path.json">>)>>>>)
          [] OTHER ->
                JsonObject(<<<<"cheri-bits", PyInt(128)>>,
                             <<"#include", PyStr(FALSE, <<"malformed.json">>)>>>>)]

FailingPaths == {ConfigDir \o <<name>> : name \in DOMAIN FailingFiles}

FailingFileSystem ==
    [p \in Paths \cup FailingPaths |-> IF p \in Paths THEN Missing ELSE FailingFiles[p[2]]]

InitFail ==
    /\ loaderCls = "JsonAndCommandLineConfigLoader"
    /\ options = IncludeOptions
    /\ parser = ParserOf(loaderCls, options)
    /\ parsedArgs = None
    /\ JSON = EmptyDict
    /\ configPath = None
    /\ files = FailingFileSystem
    /\ cached = [n \in DOMAIN options |-> None]
    /\ resolutions = [n \in DOMAIN options |-> 0]
    /\ err = "ok"
    /\ stdin \in BOOLEAN
    /\ warnings = {}
    /\ jenkins = Unassigned

NextFail ==
    \/ \E p \in FailingPaths \cup {TestConfigPath} : SetConfigPath(p)
    \/ \E ns \in IncludeCommandLines : Reload(ns)
    \/ \E name \in DOMAIN options : Read(name)

SpecFail == InitFail /\ [][NextFail]_vars

\* how a load of the config file fails: malformed text, a duplicate key, a
\* missing file
LoadFailures == {"JSONDecodeError", "SyntaxError", "FileNotFoundError"}

====
